---- MODULE Spec2Model ----
(***************************************************************************)
(* Model of apps-self-check: the asynchronous retry queue of package       *)
(* storer (commonStorer.AsyncQueryRetry / asyncSaveCheckResults, Close),   *)
(* the concurrent probe run and the periodic loop of package checker       *)
(* (checker.doChecks, checker.Run) and the gap analysis of the MySQL       *)
(* storer (mysqlStorer.AnalyzeLongestGapPerApp).                           *)
(***************************************************************************)
EXTENDS Integers, Sequences, FiniteSets, TLC

\* ---------------------------------------------------------------- bounds
\* Longest attemptSchedule of a submission that runs alone.
MaxLen == 3

\* ------------------------------------------------------------ input sets
\* The submissions (goroutines started by AsyncQueryRetry).
Subs == {"s1", "s2"}
\* The callers of Storer.Close.
Closers == {"c1", "c2"}
\* A schedule entry is a time.Duration: 0 (no wait) or positive (timer).
Delays == {0, 1}
\* The registered checks of the checker.
Probes == {"dns", "http", "db"}

RECURSIVE SeqsUpTo(_, _)
SeqsUpTo(S, n) ==
    IF n = 0 THEN {<<>>}
    ELSE LET shorter == SeqsUpTo(S, n - 1)
         IN  shorter \cup {Append(q, x) : q \in {r \in shorter : Len(r) = n - 1}, x \in S}

\* Longest attemptSchedule when two submissions run side by side.
MaxLenShared == 1

\* The contexts a caller hands to a submission: the cancellable ctx of main
\* (signal.NotifyContext) or context.Background().
Parents == {"ctx", "background"}

\* Most cycles one Run call starts.
MaxCycles == 2

\* The cycles of one Run call, in the order of their ticks.
Cycles == 1..MaxCycles

\* How many cycles the Run started by main is followed for.
MaxSaves == 1

\* Calls of SaveCheckResults the retry loop makes for one result.
MaxAttempts == 2

\* The two checkers of the repository: pkg/checker's and package main's.
RunImpls == {"pkg", "root"}

\* Most rows one AnalyzeLongestGapPerApp call reads.
MaxRows == 4

\* The ts values of the window are WindowStart .. WindowStart + MaxTS.
MaxTS == 3

\* Times and durations are counted in minutes. The start argument of the call,
\* in minutes since the zero time.Time (year 1).
WindowStart == 1064000000

\* time.Duration is an int64 of nanoseconds: the longest is about 292 years.
MaxDuration == 153722867

\* The app_id values in the order of ORDER BY app_id.
AppIDs == <<"", "A", "B">>

\* The rows the query can return: [app, ts].
RowSet == [app : {AppIDs[i] : i \in DOMAIN AppIDs}, ts : WindowStart..(WindowStart + MaxTS)]

\* The callers of doChecks: the cycle of checker.Run and HTTPHandler.
Entries == {"run", "http"}

\* The submissions of main whose task calls UpdateInstance: the registration
\* (main.go:70), the public-IP update (main.go:124) and the stopped-at update
\* (main.go:117).
Updates == {"register", "publicIP", "stoppedAt"}

\* The Errors a CheckResults carries when it is submitted.
OrigErrors == {<<>>, <<[Check |-> <<"dns">>, Error |-> <<"lookup failed">>]>>}

\* ------------------------------------------------------- pure functions
DigitChar == <<"0", "1", "2", "3", "4", "5", "6", "7", "8", "9">>

\* strconv.Itoa on a non-negative int: its decimal digits.
RECURSIVE Itoa(_)
Itoa(n) ==
    IF n < 10 THEN <<DigitChar[n + 1]>>
    ELSE Itoa(n \div 10) \o <<DigitChar[(n % 10) + 1]>>

\* err.Error() of the error the store returns on a failed attempt.
TaskError(attempt) == <<"failed to save on attempt", attempt>>

SaveAttemptError_OffByOne(attempt, e) ==
    [Check |-> <<"result_save_attempt_">> \o Itoa(attempt - 1), Error |-> e]

\* check.CheckError{Check: "result_save_attempt_" + strconv.Itoa(attempt), Error: err.Error()}
SaveAttemptError(attempt, e) ==
    [Check |-> <<"result_save_attempt_">> \o Itoa(attempt), Error |-> e]

VARIABLES
    scope,         \* what is explored: [subs, closers, maxLen, origs], never changes
    \* ---- commonStorer
    impl,          \* which Storer: "mysql" (mysqlStorer) or "log" (LogStorer)
    done,          \* commonStorer.done is closed
    closeOnce,     \* commonStorer.closeOnce has run
    closeCount,    \* how many times close(done) was executed
    wg,            \* commonStorer.wg counter
    ctxCancelled,  \* the cancellable parent ctx is cancelled
    \* ---- one AsyncQueryRetry goroutine per submission
    pc,            \* position of the goroutine
    attemptSchedule,
    parent,        \* the ctx argument of the submission
    task,          \* the f argument: "f" (a function) or "nil"
    idx,           \* loop index i (attempt = i + 1)
    dyingBreath,
    wctx,          \* the goroutine's ctx variable: [kind, born, expired]
    timerFired,    \* t.C of the current iteration is ready
    err,           \* the goroutine's err variable
    result,        \* r.Errors of the closure / result.Errors
    \* ---- observations
    submitted,     \* the Errors of the result when it was submitted
    saved,         \* Errors lists the store accepted, per submission
    execLog,       \* the executions of f: [attempt, kind, born, ok]
    logs,          \* log lines of the goroutine: <<level, attempt>>
    sigInWait,     \* a signal fired while the goroutine was in the select
    afterSignal,   \* how many attempts the goroutine started with done closed
    \* ---- Close callers
    cpc,           \* "idle", "waiting" (in wg.Wait), "returned"
    \* ---- callers of AsyncQueryRetry
    caller,        \* "idle", "in" (inside the call), "returned"
    \* ---- one checker.doChecks call
    entry,         \* who calls doChecks: "run" (checker.Run) or "http" (HTTPHandler)
    dpc,           \* position of doChecks: "launch", "wait" (wg.Wait), "returned"
    launched,      \* how many of c.checks have their goroutine started
    cwg,           \* doChecks' wg counter
    l,             \* holder of the mutex l, or "free"
    checkCtxErr,   \* ctx.Err() != nil for the ctx given to doChecks
    upc,           \* position of each check goroutine
    ferr,          \* what ch.f returned: "none" (not yet), "nil", "error"
    fmeas,         \* the measurements ch.f returned
    rErrors,       \* r.Errors
    rMeasurements, \* r.Measurements
    local,         \* what a goroutine read inside the critical section
    ctxAtFinish,   \* ctx.Err() != nil when ch.f returned
    suppressed,    \* the checks whose failure was not recorded
    \* ---- checker.Run
    runImpl,       \* which Run: "pkg" (pkg/checker) or "root" (package main's checker)
    rpc,           \* position of Run: "loop", "select", "cycle", "wait", "returned"
    tick,          \* ticker.C holds a tick
    started,       \* how many cycles Run has started
    rwg,           \* Run's wg counter
    cyc,           \* position of each cycle
    timedOut,      \* the deadline of the cycle's checkCtx has passed
    cancelledAtFinish, \* ctx.Err() != nil when the cycle's doChecks returned
    handed,        \* the cycle's result was passed to the storer
    \* ---- one AnalyzeLongestGapPerApp call
    gpc,           \* position: "query", "scan", "returned"
    rows,          \* the rows read so far: [app, ts]
    maxInterval,
    maxIntervalTS,
    lastTS,
    lastAppID,
    emitted,       \* the calls of output: [app, interval, ts]
    gerr,          \* the returned error: "nil", "query", "scan", "rows"
    \* ---- the daemon: func main, its goroutines and the submissions it makes
    mainpc,        \* position of main
    mainWg,        \* the wg counter of main
    stopper,       \* the goroutine that records StoppedAt on shutdown
    shutdown,      \* the goroutine that calls server.Shutdown
    runner,        \* the goroutine that calls c.Run
    sub,           \* position of each submission whose task calls UpdateInstance
    save,          \* position of the submission of each cycle's SaveCheckResults
    storerWg,      \* the storer's wg counter, as the daemon's submissions move it
    storerDone,    \* the storer's done channel is closed by main's s.Close()
    instanceLock,  \* holder of mysqlStorer.instanceLock, or "free"
    instanceMutex, \* holder of the Instance's embedded sync.Mutex, or "free"
    databaseID,    \* instance.DatabaseID
    \* ---- mysqlStorer.SaveCheckResults on one result, attempt after attempt
    txpc,          \* position of the call
    txResult,      \* the result: whether it carries Errors and Measurements
    tx,            \* tables the open transaction has inserted into
    txErr,         \* the named result err
    db,            \* what is committed: the tables written by each commit
    returns        \* what each call returned, in order

qvars == <<scope, impl, done, closeOnce, closeCount, wg, ctxCancelled, pc, attemptSchedule,
           task, parent, idx, dyingBreath, wctx, timerFired, err, result, submitted, saved,
           execLog, logs, sigInWait, afterSignal, cpc, caller>>

cvars == <<entry, dpc, launched, cwg, l, checkCtxErr, upc, ferr, fmeas, rErrors,
           rMeasurements, local, ctxAtFinish, suppressed>>

rvars == <<runImpl, rpc, tick, started, rwg, cyc, timedOut, cancelledAtFinish, handed>>

gvars == <<gpc, rows, maxInterval, maxIntervalTS, lastTS, lastAppID, emitted, gerr>>

mvars == <<mainpc, mainWg, stopper, shutdown, runner, sub, save, storerWg, storerDone,
           instanceLock, instanceMutex, databaseID>>

tvars == <<txpc, txResult, tx, txErr, db, returns>>

vars == <<qvars, cvars, rvars, gvars, mvars, tvars>>

\* A check goroutine outside its critical section has read nothing.
NoLocal == [errors |-> <<>>, measurements |-> <<>>, ctxErr |-> FALSE]

ParentCtx == [kind |-> "parent", born |-> 0, expired |-> FALSE]

\* context.WithTimeout(context.Background(), dyingBreathExpiration), made for `attempt`.
GraceCtx(attempt) == [kind |-> "grace", born |-> attempt, expired |-> FALSE]

\* ctx.Err() != nil for the goroutine's current ctx.
CtxErr(s) ==
    IF wctx[s].kind = "parent"
    THEN parent[s] = "ctx" /\ ctxCancelled
    ELSE wctx[s].expired

Attempt(s) == idx[s] + 1

\* One submission with a long schedule and one Close caller.
ScopeAlone ==
    [subs |-> {"s1"}, closers |-> {"c1"}, maxLen |-> MaxLen, origs |-> OrigErrors,
     runs |-> {"pkg"}, callers |-> {"s1"}, parents |-> Parents,
     tasks |-> {"f"}, entries |-> {"run"}, daemon |-> FALSE,
     impls |-> {"mysql", "log"}, cycles |-> MaxCycles]

\* Two submissions on the cancellable ctx with short schedules, and two Close
\* callers.
ScopeShared ==
    [subs |-> Subs, closers |-> Closers, maxLen |-> MaxLenShared, origs |-> {<<>>},
     runs |-> {"pkg"}, callers |-> {"s1"}, parents |-> {"ctx"},
     tasks |-> {"f"}, entries |-> {"run"}, daemon |-> FALSE,
     impls |-> {"mysql", "log"}, cycles |-> MaxCycles]

\* One mysqlStorer saving one result.
ScopeSave == [ScopeAlone EXCEPT !.impls = {"mysql"}]

\* One submission whose task may be nil.
ScopeNil ==
    [subs |-> {"s1"}, closers |-> {"c1"}, maxLen |-> MaxLenShared + 1, origs |-> {<<>>},
     runs |-> {"pkg"}, callers |-> {"s1"}, parents |-> Parents,
     tasks |-> {"f", "nil"}, entries |-> {"run"}, daemon |-> FALSE,
     impls |-> {"mysql", "log"}, cycles |-> MaxCycles]

\* Two submissions side by side and one Close call.
ScopePair == [ScopeShared EXCEPT !.closers = {"c1"}]

\* One submission and two Close callers.
ScopeClose == [ScopeAlone EXCEPT !.closers = Closers, !.origs = {<<>>}]

\* One submission and one Close, followed to their end.
ScopeLive == [ScopeAlone EXCEPT !.origs = {<<>>}]

\* One doChecks call from either of its callers.
ScopeChecks == [ScopeAlone EXCEPT !.entries = Entries]

\* A Run call of either checker.
ScopeRun ==
    [subs |-> {}, closers |-> {}, maxLen |-> 0, origs |-> {<<>>}, runs |-> RunImpls,
     callers |-> {}, parents |-> {}, tasks |-> {}, entries |-> {"run"}, daemon |-> FALSE,
     impls |-> {"mysql", "log"}, cycles |-> MaxCycles]

\* The daemon: main, the Run it starts and the submissions they make.
ScopeDaemon ==
    [ScopeRun EXCEPT !.runs = {"pkg"}, !.daemon = TRUE, !.impls = {"mysql"},
                     !.cycles = MaxSaves]

\* The zero time.Time that `var maxIntervalTS, lastTS time.Time` start from.
ZeroTime == 0

InitIn(sc) ==
    /\ scope = sc
    /\ impl \in sc.impls
    /\ done = FALSE
    /\ closeOnce = FALSE
    /\ closeCount = 0
    /\ wg = 0
    /\ ctxCancelled = FALSE
    /\ pc = [s \in Subs |-> "idle"]
    /\ attemptSchedule = [s \in Subs |-> <<>>]
    /\ parent = [s \in Subs |-> "ctx"]
    /\ task = [s \in Subs |-> "f"]
    /\ idx = [s \in Subs |-> 0]
    /\ dyingBreath = [s \in Subs |-> FALSE]
    /\ wctx = [s \in Subs |-> ParentCtx]
    /\ timerFired = [s \in Subs |-> FALSE]
    /\ err = [s \in Subs |-> <<>>]
    /\ result = [s \in Subs |-> <<>>]
    /\ submitted = [s \in Subs |-> <<>>]
    /\ saved = [s \in Subs |-> <<>>]
    /\ execLog = [s \in Subs |-> <<>>]
    /\ logs = [s \in Subs |-> <<>>]
    /\ sigInWait = [s \in Subs |-> FALSE]
    /\ afterSignal = [s \in Subs |-> 0]
    /\ cpc = [c \in Closers |-> "idle"]
    /\ caller = [s \in Subs |-> "idle"]
    /\ entry \in sc.entries
    /\ dpc = "launch"
    /\ launched = 0
    /\ cwg = 0
    /\ l = "free"
    /\ checkCtxErr = FALSE
    /\ upc = [p \in Probes |-> "unlaunched"]
    /\ ferr = [p \in Probes |-> "none"]
    /\ fmeas = [p \in Probes |-> <<>>]
    /\ rErrors = <<>>
    /\ rMeasurements = <<>>
    /\ local = [p \in Probes |-> NoLocal]
    /\ ctxAtFinish = [p \in Probes |-> FALSE]
    /\ suppressed = {}
    /\ runImpl \in sc.runs
    /\ rpc = IF sc.daemon THEN "uncalled" ELSE "loop"
    /\ tick = FALSE
    /\ started = 0
    /\ rwg = 0
    /\ cyc = [c \in Cycles |-> "unstarted"]
    /\ timedOut = [c \in Cycles |-> FALSE]
    /\ cancelledAtFinish = [c \in Cycles |-> FALSE]
    /\ handed = [c \in Cycles |-> FALSE]
    /\ mainpc = "start"
    /\ mainWg = 0
    /\ stopper = "unstarted"
    /\ shutdown = "unstarted"
    /\ runner = "unstarted"
    /\ sub = [u \in Updates |-> "none"]
    /\ save = [c \in Cycles |-> "none"]
    /\ storerWg = 0
    /\ storerDone = FALSE
    /\ instanceLock = "free"
    /\ instanceMutex = "free"
    /\ databaseID = 0
    /\ txpc = "idle"
    /\ txResult = [errors |-> FALSE, measurements |-> FALSE]
    /\ tx = {}
    /\ txErr = "nil"
    /\ db = <<>>
    /\ returns = <<>>
    /\ gpc = "query"
    /\ rows = <<>>
    /\ maxInterval = -1
    /\ maxIntervalTS = ZeroTime
    /\ lastTS = ZeroTime
    /\ lastAppID = ""
    /\ emitted = <<>>
    /\ gerr = "nil"

\* ------------------------------------------------------ AsyncQueryRetry
\* A goroutine has panicked and nothing recovers: the process is gone.
Crashed == \E s \in Subs : pc[s] = "panic"

Submitted == {s \in Subs : pc[s] # "idle"}

\* c.wg.Add(1); go func() {...}(): the goroutine is started from inside the call.
\* The return of the call is a step of its own for the callers in scope.callers.
Submit(s) ==
    /\ ~Crashed
    /\ pc[s] = "idle"
    /\ s \in scope.subs
    /\ \E sch \in SeqsUpTo(Delays, scope.maxLen), par \in scope.parents, orig \in scope.origs,
          tk \in scope.tasks :
          /\ attemptSchedule' = [attemptSchedule EXCEPT ![s] = sch]
          /\ task' = [task EXCEPT ![s] = tk]
          /\ parent' = [parent EXCEPT ![s] = par]
          /\ result' = [result EXCEPT ![s] = orig]
          /\ submitted' = [submitted EXCEPT ![s] = orig]
    /\ wg' = wg + 1
    /\ pc' = [pc EXCEPT ![s] = "loop"]
    /\ caller' = [caller EXCEPT ![s] = IF s \in scope.callers THEN "in" ELSE "returned"]
    /\ UNCHANGED <<tvars, cvars, rvars, gvars, mvars, afterSignal>>
    /\ UNCHANGED <<scope, impl, done, closeOnce, closeCount, ctxCancelled, idx, dyingBreath,
                   wctx, timerFired, err, saved, execLog, logs, sigInWait, cpc>>

GoReturns_Joined(s) == pc[s] = "done"

\* go func() {...}(): the statement is over when the goroutine is started; it
\* does not wait for the function.
GoReturns(s) == pc[s] # "idle"

\* AsyncQueryRetry returns to its caller; it has no result.
SubmitReturns(s) ==
    /\ ~Crashed
    /\ caller[s] = "in"
    /\ GoReturns(s)
    /\ caller' = [caller EXCEPT ![s] = "returned"]
    /\ UNCHANGED <<tvars, cvars, rvars, gvars, mvars, submitted, task, afterSignal>>
    /\ UNCHANGED <<scope, impl, done, closeOnce, closeCount, wg, ctxCancelled, pc, attemptSchedule,
                   parent, idx, dyingBreath, wctx, timerFired, err, result, saved, execLog,
                   logs, sigInWait, cpc>>

ScheduleLeft_Never(s) == FALSE

\* for i, delay := range attemptSchedule: is there another entry?
ScheduleLeft(s) == idx[s] < Len(attemptSchedule[s])

NeedsWait_Never(s) == FALSE

\* if delay > 0: only a positive schedule entry is waited for.
NeedsWait(s) == attemptSchedule[s][idx[s] + 1] > 0

\* Head of one loop iteration: var dyingBreath bool; if delay > 0 { t := time.NewTimer(delay); select ... }
BeginIteration(s) ==
    /\ ~Crashed
    /\ pc[s] = "loop"
    /\ ScheduleLeft(s)
    /\ dyingBreath' = [dyingBreath EXCEPT ![s] = FALSE]
    /\ sigInWait' = [sigInWait EXCEPT ![s] = FALSE]
    /\ timerFired' = [timerFired EXCEPT ![s] = FALSE]
    /\ pc' = [pc EXCEPT ![s] =
                IF NeedsWait(s) THEN "select" ELSE "check"]
    /\ UNCHANGED <<tvars, cvars, rvars, gvars, mvars, submitted, caller, task, afterSignal>>
    /\ UNCHANGED <<scope, impl, done, closeOnce, closeCount, wg, ctxCancelled, attemptSchedule,
                   parent, idx, wctx, err, result, saved, execLog, logs, cpc>>

\* The timer of the current iteration elapses: t.C becomes ready.
TimerFires(s) ==
    /\ ~Crashed
    /\ pc[s] = "select"
    /\ ~timerFired[s]
    /\ timerFired' = [timerFired EXCEPT ![s] = TRUE]
    /\ UNCHANGED <<tvars, cvars, rvars, gvars, mvars, submitted, caller, task, afterSignal>>
    /\ UNCHANGED <<scope, impl, done, closeOnce, closeCount, wg, ctxCancelled, pc, attemptSchedule,
                   parent, idx, dyingBreath, wctx, err, result, saved, execLog, logs,
                   sigInWait, cpc>>

\* The select leaves through one of its ready cases with the given dyingBreath.
\* When several cases are ready Go chooses one of them at random, so each of the
\* three cases below is enabled whenever its channel is ready.
LeaveSelect(s, dying) ==
    /\ ~Crashed
    /\ dyingBreath' = [dyingBreath EXCEPT ![s] = dying]
    /\ timerFired' = [timerFired EXCEPT ![s] = FALSE]
    /\ pc' = [pc EXCEPT ![s] = "check"]
    /\ UNCHANGED <<tvars, cvars, rvars, gvars, mvars, submitted, caller, task, afterSignal>>
    /\ UNCHANGED <<scope, impl, done, closeOnce, closeCount, wg, ctxCancelled, attemptSchedule,
                   parent, idx, wctx, err, result, saved, execLog, logs, sigInWait, cpc>>

\* case <-t.C:
SelectTimer(s) ==
    /\ pc[s] = "select"
    /\ timerFired[s]
    /\ LeaveSelect(s, FALSE)

\* case <-ctx.Done(): dyingBreath = true
SelectCtxDone(s) ==
    /\ pc[s] = "select"
    /\ CtxErr(s)
    /\ LeaveSelect(s, TRUE)

\* case <-c.done: dyingBreath = true
SelectDone(s) ==
    /\ pc[s] = "select"
    /\ done
    /\ LeaveSelect(s, TRUE)

\* if dyingBreath || ctx.Err() != nil { ctx, cancel = context.WithTimeout(context.Background(), ...) }
AttemptCtx(s) ==
    IF dyingBreath[s] \/ CtxErr(s) THEN GraceCtx(Attempt(s)) ELSE wctx[s]

\* The ctx of the attempt is settled and f(ctx, attempt) is called.
StartAttempt(s) ==
    /\ ~Crashed
    /\ pc[s] = "check"
    /\ wctx' = [wctx EXCEPT ![s] = AttemptCtx(s)]
    /\ pc' = [pc EXCEPT ![s] = "exec"]
    /\ afterSignal' = [afterSignal EXCEPT ![s] = IF done THEN @ + 1 ELSE @]
    /\ UNCHANGED <<tvars, cvars, rvars, gvars, mvars, submitted, caller, task>>
    /\ UNCHANGED <<scope, impl, done, closeOnce, closeCount, wg, ctxCancelled, attemptSchedule,
                   parent, idx, dyingBreath, timerFired, err, result, saved, execLog,
                   logs, sigInWait, cpc>>

WgDone_Missing == wg

\* defer c.wg.Done(): the counter after the goroutine of a submission has returned.
WgDone == wg - 1

Execution(s, ok) ==
    [attempt |-> Attempt(s), kind |-> wctx[s].kind, born |-> wctx[s].born, ok |-> ok]

TaskSucceeds_Continues(s) ==
    /\ ~Crashed
    /\ pc[s] = "exec"
    /\ task[s] = "f"
    /\ saved' = [saved EXCEPT ![s] = Append(@, result[s])]
    /\ err' = [err EXCEPT ![s] = <<>>]
    /\ execLog' = [execLog EXCEPT ![s] = Append(@, Execution(s, TRUE))]
    /\ pc' = [pc EXCEPT ![s] = "loop"]
    /\ idx' = [idx EXCEPT ![s] = @ + 1]
    /\ sigInWait' = [sigInWait EXCEPT ![s] = FALSE]
    /\ UNCHANGED <<tvars, cvars, rvars, gvars, mvars, submitted, caller, task, afterSignal>>
    /\ UNCHANGED <<scope, impl, done, closeOnce, closeCount, wg, ctxCancelled,
                   attemptSchedule, parent, dyingBreath, wctx, timerFired, result, logs,
                   cpc>>

\* f returns nil: SaveCheckResults stored r; `return` runs the deferred wg.Done.
TaskSucceeds(s) ==
    /\ ~Crashed
    /\ pc[s] = "exec"
    /\ task[s] = "f"
    /\ saved' = [saved EXCEPT ![s] = Append(@, result[s])]
    /\ err' = [err EXCEPT ![s] = <<>>]
    /\ execLog' = [execLog EXCEPT ![s] = Append(@, Execution(s, TRUE))]
    /\ pc' = [pc EXCEPT ![s] = "done"]
    /\ wg' = WgDone
    /\ sigInWait' = [sigInWait EXCEPT ![s] = FALSE]
    /\ UNCHANGED <<tvars, cvars, rvars, gvars, mvars, submitted, caller, task, afterSignal>>
    /\ UNCHANGED <<scope, impl, done, closeOnce, closeCount, ctxCancelled, attemptSchedule,
                   parent, idx, dyingBreath, wctx, timerFired, result, logs, cpc>>

StopRetrying_Always(s) == TRUE

\* if dyingBreath || ctx.Err() != nil { return } after a failed attempt.
StopRetrying(s) == dyingBreath[s] \/ CtxErr(s)

\* if attempt < len(attemptSchedule) { ll.Warn()... }
WarnLine(s) ==
    IF Attempt(s) < Len(attemptSchedule[s]) THEN <<<<"warn", Attempt(s)>>>> ELSE <<>>

WithAttemptError_Replaces(s) ==
    <<SaveAttemptError(Attempt(s), TaskError(Attempt(s)))>>

\* r.Errors = append(r.Errors, check.CheckError{...}) in the closure of checker.Run
\* (result.Errors = append(result.Errors, ...) in asyncSaveCheckResults).
WithAttemptError(s) ==
    Append(result[s], SaveAttemptError(Attempt(s), TaskError(Attempt(s))))

\* The Errors list as the caller of the submission sees it afterwards. The
\* closure of checker.Run captures the caller's variable r, so the caller's
\* r.Errors is the list the closure assigns to.
ClosureCallerErrors(s) == result[s]

\* asyncSaveCheckResults takes result by value: the caller keeps its own slice
\* header, whose length is the one at the call, over the elements it had.
ValueCallerErrors(s) ==
    SubSeq(result[s], 1, IF Len(submitted[s]) < Len(result[s])
                         THEN Len(submitted[s]) ELSE Len(result[s]))

ResultsAfterFailure_Shared(s) ==
    [t \in Subs |-> IF pc[t] # "idle"
                    THEN Append(result[t], SaveAttemptError(Attempt(s), TaskError(Attempt(s))))
                    ELSE result[t]]

\* Each submission's closure holds the r of its own cycle: a failed attempt of s
\* appends to the list of s and to no other.
ResultsAfterFailure(s) == [result EXCEPT ![s] = WithAttemptError(s)]

\* f returns an error: the closure appends result_save_attempt_<attempt>, the loop
\* warns and either returns or moves to the next schedule entry.
TaskFails(s) ==
    /\ ~Crashed
    /\ pc[s] = "exec"
    /\ task[s] = "f"
    /\ err' = [err EXCEPT ![s] = TaskError(Attempt(s))]
    /\ result' = ResultsAfterFailure(s)
    /\ execLog' = [execLog EXCEPT ![s] = Append(@, Execution(s, FALSE))]
    /\ logs' = [logs EXCEPT ![s] = @ \o WarnLine(s)]
    /\ IF StopRetrying(s)
       THEN /\ pc' = [pc EXCEPT ![s] = "done"]
            /\ wg' = WgDone
            /\ idx' = idx
       ELSE /\ pc' = [pc EXCEPT ![s] = "loop"]
            /\ wg' = wg
            /\ idx' = [idx EXCEPT ![s] = @ + 1]
    /\ sigInWait' = [sigInWait EXCEPT ![s] = FALSE]
    /\ UNCHANGED <<tvars, cvars, rvars, gvars, mvars, submitted, caller, task, afterSignal>>
    /\ UNCHANGED <<scope, impl, done, closeOnce, closeCount, ctxCancelled, attemptSchedule,
                   parent, dyingBreath, wctx, timerFired, saved, cpc>>

\* f is nil: the call f(ctx, attempt) panics inside the goroutine. The deferred
\* cancel and c.wg.Done() run, nothing recovers and the process exits.
TaskPanics(s) ==
    /\ ~Crashed
    /\ pc[s] = "exec"
    /\ task[s] = "nil"
    /\ pc' = [pc EXCEPT ![s] = "panic"]
    /\ wg' = WgDone
    /\ UNCHANGED <<tvars, cvars, rvars, gvars, mvars, submitted, caller, task, afterSignal>>
    /\ UNCHANGED <<scope, impl, done, closeOnce, closeCount, ctxCancelled, attemptSchedule,
                   parent, idx, dyingBreath, wctx, timerFired, err, result, saved,
                   execLog, logs, sigInWait, cpc>>

\* The range is exhausted: ll.Error()...Msg("final attempt: ..."), then wg.Done.
ScheduleExhausted(s) ==
    /\ ~Crashed
    /\ pc[s] = "loop"
    /\ ~ScheduleLeft(s)
    /\ logs' = [logs EXCEPT ![s] = Append(@, <<"error", Len(attemptSchedule[s])>>)]
    /\ pc' = [pc EXCEPT ![s] = "done"]
    /\ wg' = WgDone
    /\ UNCHANGED <<tvars, cvars, rvars, gvars, mvars, submitted, caller, task, afterSignal>>
    /\ UNCHANGED <<scope, impl, done, closeOnce, closeCount, ctxCancelled, attemptSchedule,
                   parent, idx, dyingBreath, wctx, timerFired, err, result, saved,
                   execLog, sigInWait, cpc>>

\* dyingBreathExpiration passes: the grace ctx of the goroutine expires.
GraceExpires(s) ==
    /\ ~Crashed
    /\ pc[s] \in {"select", "check", "exec"}
    /\ wctx[s].kind = "grace"
    /\ ~wctx[s].expired
    /\ wctx' = [wctx EXCEPT ![s].expired = TRUE]
    /\ UNCHANGED <<tvars, cvars, rvars, gvars, mvars, submitted, caller, task, afterSignal>>
    /\ UNCHANGED <<scope, impl, done, closeOnce, closeCount, wg, ctxCancelled, pc, attemptSchedule,
                   parent, idx, dyingBreath, timerFired, err, result, saved, execLog,
                   logs, sigInWait, cpc>>

\* The goroutines in their backoff wait (the delay has not elapsed) that have the
\* given signal among the cases of their select.
Waiting(onCtx) ==
    {s \in Subs : /\ pc[s] = "select"
                  /\ ~timerFired[s]
                  /\ onCtx => (parent[s] = "ctx" /\ wctx[s].kind = "parent")}

\* The caller's ctx is cancelled (signal.NotifyContext / cancel()).
CancelCtx ==
    /\ ~Crashed
    /\ ~ctxCancelled
    /\ ctxCancelled' = TRUE
    /\ sigInWait' = [s \in Subs |-> sigInWait[s] \/ s \in Waiting(TRUE)]
    /\ UNCHANGED <<tvars, cvars, rvars, gvars, mvars, submitted, caller, task, afterSignal>>
    /\ UNCHANGED <<scope, impl, done, closeOnce, closeCount, wg, pc, attemptSchedule, parent,
                   idx, dyingBreath, wctx, timerFired, err, result, saved, execLog, logs,
                   cpc>>

\* ------------------------------------------------------------------ Close
CloseOnceDo_Always == TRUE

\* sync.Once.Do: does the function run in this call?
CloseOnceDo == ~closeOnce

\* mysqlStorer.Close up to m.wg.Wait(): m.closeOnce.Do(func() { close(m.done) })
MySQLClose(c) ==
    /\ ~Crashed
    /\ impl = "mysql"
    /\ c \in scope.closers
    /\ cpc[c] = "idle"
    /\ IF CloseOnceDo
       THEN /\ done' = TRUE
            /\ closeCount' = closeCount + 1
            /\ sigInWait' = [s \in Subs |-> sigInWait[s] \/ s \in Waiting(FALSE)]
       ELSE UNCHANGED <<done, closeCount, sigInWait>>
    /\ closeOnce' = TRUE
    /\ cpc' = [cpc EXCEPT ![c] = "waiting"]
    /\ UNCHANGED <<tvars, cvars, rvars, gvars, mvars, submitted, caller, task, afterSignal>>
    /\ UNCHANGED <<scope, impl, wg, ctxCancelled, pc, attemptSchedule, parent, idx, dyingBreath,
                   wctx, timerFired, err, result, saved, execLog, logs>>

\* m.wg.Wait() returns when the counter is zero; return m.db.Close()
MySQLCloseReturns(c) ==
    /\ ~Crashed
    /\ impl = "mysql"
    /\ cpc[c] = "waiting"
    /\ wg = 0
    /\ cpc' = [cpc EXCEPT ![c] = "returned"]
    /\ UNCHANGED <<tvars, cvars, rvars, gvars, mvars, submitted, caller, task, afterSignal>>
    /\ UNCHANGED <<scope, impl, done, closeOnce, closeCount, wg, ctxCancelled, pc, attemptSchedule,
                   parent, idx, dyingBreath, wctx, timerFired, err, result, saved, execLog,
                   logs, sigInWait>>

\* LogStorer.Close: return nil
LogClose(c) ==
    /\ ~Crashed
    /\ impl = "log"
    /\ c \in scope.closers
    /\ cpc[c] = "idle"
    /\ cpc' = [cpc EXCEPT ![c] = "returned"]
    /\ UNCHANGED <<tvars, cvars, rvars, gvars, mvars, submitted, caller, task, afterSignal>>
    /\ UNCHANGED <<scope, impl, done, closeOnce, closeCount, wg, ctxCancelled, pc, attemptSchedule,
                   parent, idx, dyingBreath, wctx, timerFired, err, result, saved, execLog,
                   logs, sigInWait>>

\* --------------------------------------------------------------- doChecks
\* Does the ctx handed to doChecks carry a deadline? checker.Run derives it with
\* context.WithTimeout(ctx, c.timeout); HTTPHandler hands over r.Context().
HasDeadline(e) == e = "run"

\* c.checks, in registration order.
checks == <<"dns", "http", "db">>

\* The measurements a check function may return with a nil error.
ProbeMeasurements(p) == {<<>>, <<[Check |-> <<p, "_value">>]>>}

\* for _, ch := range c.checks { wg.Add(1); go func() {...}() }
Launch ==
    /\ dpc = "launch"
    /\ launched < Len(checks)
    /\ launched' = launched + 1
    /\ cwg' = cwg + 1
    /\ upc' = [upc EXCEPT ![checks[launched + 1]] = "running"]
    /\ UNCHANGED <<tvars, qvars, rvars, gvars, mvars, entry, suppressed, local>>
    /\ UNCHANGED <<dpc, l, checkCtxErr, ferr, fmeas, rErrors, rMeasurements, ctxAtFinish>>

\* The range over c.checks ends: doChecks enters wg.Wait().
LaunchDone ==
    /\ dpc = "launch"
    /\ launched = Len(checks)
    /\ dpc' = "wait"
    /\ UNCHANGED <<tvars, qvars, rvars, gvars, mvars, entry, suppressed, local>>
    /\ UNCHANGED <<launched, cwg, l, checkCtxErr, upc, ferr, fmeas, rErrors, rMeasurements,
                   ctxAtFinish>>

\* measurements, err := ch.f(ctx) returns.
ProbeReturns(p) ==
    /\ upc[p] = "running"
    /\ \/ \E m \in ProbeMeasurements(p) :
             /\ ferr' = [ferr EXCEPT ![p] = "nil"]
             /\ fmeas' = [fmeas EXCEPT ![p] = m]
       \/ /\ ferr' = [ferr EXCEPT ![p] = "error"]
          /\ fmeas' = fmeas
    /\ ctxAtFinish' = [ctxAtFinish EXCEPT ![p] = checkCtxErr]
    /\ upc' = [upc EXCEPT ![p] = "finished"]
    /\ UNCHANGED <<tvars, qvars, rvars, gvars, mvars, entry, suppressed, local>>
    /\ UNCHANGED <<dpc, launched, cwg, l, checkCtxErr, rErrors, rMeasurements>>

MutexFree_Unguarded == TRUE

\* sync.Mutex: Lock proceeds only when nobody holds l.
MutexFree == l = "free"

\* l.Lock()
Lock(p) ==
    /\ upc[p] = "finished"
    /\ MutexFree
    /\ l' = p
    /\ upc' = [upc EXCEPT ![p] = "locked"]
    /\ UNCHANGED <<tvars, qvars, rvars, gvars, mvars, entry, suppressed, local>>
    /\ UNCHANGED <<dpc, launched, cwg, checkCtxErr, ferr, fmeas, rErrors, rMeasurements,
                   ctxAtFinish>>

\* Inside the critical section the goroutine reads ctx.Err() and the slices of r
\* that the appends start from.
Enter(p) ==
    /\ upc[p] = "locked"
    /\ local' = [local EXCEPT ![p] =
                    [errors |-> rErrors, measurements |-> rMeasurements,
                     ctxErr |-> checkCtxErr]]
    /\ upc' = [upc EXCEPT ![p] = "inside"]
    /\ UNCHANGED <<tvars, qvars, rvars, gvars, mvars, entry, suppressed>>
    /\ UNCHANGED <<dpc, launched, cwg, l, checkCtxErr, ferr, fmeas, rErrors, rMeasurements,
                   ctxAtFinish>>

Suppressed_Never(p) == FALSE

\* if ctx.Err() != nil { return }: the failure is not recorded.
Suppressed(p) == local[p].ctxErr

RecordedErrors_Overwrites(p) ==
    IF ferr[p] = "error" /\ ~Suppressed(p)
    THEN <<[Check |-> <<p>>, Error |-> <<p, "failed">>]>>
    ELSE rErrors

\* r.Errors after the goroutine of p has recorded its outcome.
RecordedErrors(p) ==
    IF ferr[p] = "error" /\ ~Suppressed(p)
    THEN Append(local[p].errors, [Check |-> <<p>>, Error |-> <<p, "failed">>])
    ELSE rErrors

RecordedMeasurements_Suppressing(p) ==
    IF ferr[p] = "error" \/ Suppressed(p) THEN rMeasurements
    ELSE (local[p].measurements \o fmeas[p]) \o <<[Check |-> <<p, "_duration">>]>>

\* r.Measurements after the goroutine of p has recorded its outcome.
RecordedMeasurements(p) ==
    IF ferr[p] = "error" THEN rMeasurements
    ELSE (local[p].measurements \o fmeas[p]) \o <<[Check |-> <<p, "_duration">>]>>

\* The appends of one check goroutine, then the deferred l.Unlock() and wg.Done().
Record(p) ==
    /\ upc[p] = "inside"
    /\ rErrors' = RecordedErrors(p)
    /\ rMeasurements' = RecordedMeasurements(p)
    /\ l' = "free"
    /\ cwg' = cwg - 1
    /\ upc' = [upc EXCEPT ![p] = "done"]
    /\ local' = [local EXCEPT ![p] = NoLocal]
    /\ suppressed' = IF ferr[p] = "error" /\ Suppressed(p)
                     THEN suppressed \cup {p} ELSE suppressed
    /\ UNCHANGED <<tvars, qvars, rvars, gvars, mvars, entry>>
    /\ UNCHANGED <<dpc, launched, checkCtxErr, ferr, fmeas, ctxAtFinish>>

\* The ctx of doChecks is cancelled or passes its deadline.
CancelCheckCtx ==
    /\ dpc # "returned"
    /\ ~checkCtxErr
    /\ checkCtxErr' = TRUE
    /\ UNCHANGED <<tvars, qvars, rvars, gvars, mvars, entry, suppressed, local>>
    /\ UNCHANGED <<dpc, launched, cwg, l, upc, ferr, fmeas, rErrors, rMeasurements,
                   ctxAtFinish>>

WaitReturns_Early == TRUE

\* wg.Wait() of doChecks blocks until the counter is zero.
WaitReturns == cwg = 0

\* wg.Wait() returns; return r
ChecksReturn ==
    /\ dpc = "wait"
    /\ WaitReturns
    /\ dpc' = "returned"
    /\ UNCHANGED <<tvars, qvars, rvars, gvars, mvars, entry, suppressed, local>>
    /\ UNCHANGED <<launched, cwg, l, checkCtxErr, upc, ferr, fmeas, rErrors, rMeasurements,
                   ctxAtFinish>>

\* ------------------------------------------------------------ checker.Run
RunExit_NoWait == "returned"

\* Where Run goes when it leaves its loop: pkg/checker's Run has the deferred
\* wg.Wait() before it, package main's Run returns.
RunExit == IF runImpl = "pkg" THEN "wait" ELSE "returned"

\* The ticker delivers a tick into ticker.C (a channel with room for one).
Tick ==
    /\ rpc \in {"loop", "select", "cycle"}
    /\ started < scope.cycles
    /\ ~tick
    /\ tick' = TRUE
    /\ UNCHANGED <<tvars, qvars, cvars, gvars, mvars>>
    /\ UNCHANGED <<runImpl, rpc, started, rwg, cyc, timedOut, cancelledAtFinish, handed>>

\* for ctx.Err() == nil {
RunLoopTest ==
    /\ rpc = "loop"
    /\ rpc' = IF ctxCancelled THEN RunExit ELSE "select"
    /\ UNCHANGED <<tvars, qvars, cvars, gvars, mvars>>
    /\ UNCHANGED <<runImpl, tick, started, rwg, cyc, timedOut, cancelledAtFinish, handed>>

\* case <-ctx.Done(): return
RunSelectDone ==
    /\ rpc = "select"
    /\ ctxCancelled
    /\ rpc' = RunExit
    /\ UNCHANGED <<tvars, qvars, cvars, gvars, mvars>>
    /\ UNCHANGED <<runImpl, tick, started, rwg, cyc, timedOut, cancelledAtFinish, handed>>

\* case <-ticker.C: pkg/checker starts the cycle in a goroutine (wg.Add(1); go
\* func() {...}()) and loops; package main runs the cycle inside the loop.
RunSelectTick ==
    /\ rpc = "select"
    /\ tick
    /\ started < scope.cycles
    /\ tick' = FALSE
    /\ started' = started + 1
    /\ cyc' = [cyc EXCEPT ![started + 1] = "doChecks"]
    /\ IF runImpl = "pkg"
       THEN rwg' = rwg + 1 /\ rpc' = "loop"
       ELSE rwg' = rwg /\ rpc' = "cycle"
    /\ UNCHANGED <<tvars, qvars, cvars, gvars, mvars>>
    /\ UNCHANGED <<runImpl, timedOut, cancelledAtFinish, handed>>

\* context.WithTimeout(ctx, c.timeout): the deadline of checkCtx passes while
\* doChecks runs.
CheckTimeout(c) ==
    /\ runImpl = "pkg"
    /\ cyc[c] = "doChecks"
    /\ ~timedOut[c]
    /\ timedOut' = [timedOut EXCEPT ![c] = TRUE]
    /\ UNCHANGED <<tvars, qvars, cvars, gvars, mvars>>
    /\ UNCHANGED <<runImpl, rpc, tick, started, rwg, cyc, cancelledAtFinish, handed>>

\* r := c.doChecks(checkCtx) returns: every check of the cycle has finished.
CycleChecksReturn(c) ==
    /\ cyc[c] = "doChecks"
    /\ cyc' = [cyc EXCEPT ![c] = "test"]
    /\ cancelledAtFinish' = [cancelledAtFinish EXCEPT ![c] = ctxCancelled]
    /\ UNCHANGED <<tvars, qvars, cvars, gvars, mvars>>
    /\ UNCHANGED <<runImpl, rpc, tick, started, rwg, timedOut, handed>>

Abandon_Never == FALSE

\* if ctx.Err() != nil { return } on the ctx of Run, not on checkCtx.
Abandon == ctxCancelled

\* The test after doChecks: an abandoned cycle returns (pkg/checker: deferred
\* cancel and wg.Done; package main: Run itself returns).
CycleTest(c) ==
    /\ cyc[c] = "test"
    /\ IF Abandon
       THEN /\ cyc' = [cyc EXCEPT ![c] = "done"]
            /\ IF runImpl = "pkg"
               THEN rwg' = rwg - 1 /\ rpc' = rpc
               ELSE rwg' = rwg /\ rpc' = "returned"
       ELSE /\ cyc' = [cyc EXCEPT ![c] = "submit"]
            /\ UNCHANGED <<rwg, rpc>>
    /\ UNCHANGED <<tvars, qvars, cvars, gvars, mvars>>
    /\ UNCHANGED <<runImpl, tick, started, timedOut, cancelledAtFinish, handed>>

\* The result goes to the storer: c.storer.AsyncQueryRetry(ctx, SaveBackOffSchedule,
\* ...) returns at once and the goroutine ends (pkg/checker);
\* c.storer.SaveCheckResults(ctx, r) is called inside the loop (package main).
CycleSubmit(c) ==
    /\ cyc[c] = "submit"
    /\ handed' = [handed EXCEPT ![c] = TRUE]
    /\ IF runImpl = "pkg"
       THEN /\ cyc' = [cyc EXCEPT ![c] = "done"]
            /\ rwg' = rwg - 1
            /\ save' = [save EXCEPT ![c] = "queued"]
            /\ storerWg' = storerWg + 1
       ELSE /\ cyc' = [cyc EXCEPT ![c] = "saving"]
            /\ rwg' = rwg
            /\ UNCHANGED <<save, storerWg>>
    /\ UNCHANGED <<tvars, qvars, cvars, gvars>>
    /\ UNCHANGED <<mainpc, mainWg, stopper, shutdown, runner, sub, storerDone, instanceLock,
                   instanceMutex, databaseID>>
    /\ UNCHANGED <<runImpl, rpc, tick, started, timedOut, cancelledAtFinish>>

\* package main: SaveCheckResults returns (its error is logged) and the loop goes on.
CycleSaved(c) ==
    /\ runImpl = "root"
    /\ cyc[c] = "saving"
    /\ cyc' = [cyc EXCEPT ![c] = "done"]
    /\ rpc' = "loop"
    /\ UNCHANGED <<tvars, qvars, cvars, gvars, mvars>>
    /\ UNCHANGED <<runImpl, tick, started, rwg, timedOut, cancelledAtFinish, handed>>

\* defer wg.Wait() of pkg/checker's Run is over: Run returns.
RunReturns ==
    /\ rpc = "wait"
    /\ rwg = 0
    /\ rpc' = "returned"
    /\ UNCHANGED <<tvars, qvars, cvars, gvars, mvars>>
    /\ UNCHANGED <<runImpl, tick, started, rwg, cyc, timedOut, cancelledAtFinish, handed>>

\* -------------------------------------------------------------- func main
\* The process is running: main has neither returned nor left through log.Fatal.
Running == mainpc \notin {"fatal", "exited"}

\* s.AsyncQueryRetry(..., func(...) error { return s.UpdateInstance(ctx, instance) }):
\* c.wg.Add(1) and the goroutine of the submission is started.
Queued(u) == [sub EXCEPT ![u] = "queued"]

\* main.go:70: the registration of the instance is submitted.
MainRegisters ==
    /\ mainpc = "start"
    /\ mainpc' = "registered"
    /\ sub' = Queued("register")
    /\ storerWg' = storerWg + 1
    /\ UNCHANGED <<tvars, qvars, cvars, rvars, gvars>>
    /\ UNCHANGED <<mainWg, stopper, shutdown, runner, save, storerDone, instanceLock,
                   instanceMutex, databaseID>>

\* main.go:110-123: wg.Add(1); go func() { defer wg.Done(); <-ctx.Done(); ... }()
MainStartsStopper ==
    /\ mainpc = "registered"
    /\ mainpc' = "stopperUp"
    /\ mainWg' = mainWg + 1
    /\ stopper' = "waitCtx"
    /\ UNCHANGED <<tvars, qvars, cvars, rvars, gvars>>
    /\ UNCHANGED <<shutdown, runner, sub, save, storerWg, storerDone, instanceLock,
                   instanceMutex, databaseID>>

\* main.go:124-132: the public-IP update is submitted.
MainSubmitsPublicIP ==
    /\ mainpc = "stopperUp"
    /\ mainpc' = "ipQueued"
    /\ sub' = Queued("publicIP")
    /\ storerWg' = storerWg + 1
    /\ UNCHANGED <<tvars, qvars, cvars, rvars, gvars>>
    /\ UNCHANGED <<mainWg, stopper, shutdown, runner, save, storerDone, instanceLock,
                   instanceMutex, databaseID>>

\* main.go:134-144: with CHECK_INTERVAL set, wg.Add(1) and a goroutine calls
\* c.Run(ctx, checkInterval); without it no Run is started.
MainStartsRunner ==
    /\ mainpc = "ipQueued"
    /\ mainpc' = "runnerUp"
    /\ \/ /\ mainWg' = mainWg + 1
          /\ runner' = "running"
          /\ rpc' = "loop"
       \/ UNCHANGED <<mainWg, runner, rpc>>
    /\ UNCHANGED <<tvars, qvars, cvars, gvars>>
    /\ UNCHANGED <<runImpl, tick, started, rwg, cyc, timedOut, cancelledAtFinish, handed>>
    /\ UNCHANGED <<stopper, shutdown, sub, save, storerWg, storerDone, instanceLock,
                   instanceMutex, databaseID>>

\* main.go:152-162: the goroutine that will shut the server down is started and
\* main enters server.ListenAndServe().
MainServes ==
    /\ mainpc = "runnerUp"
    /\ mainpc' = "serving"
    /\ mainWg' = mainWg + 1
    /\ shutdown' = "waitCtx"
    /\ UNCHANGED <<tvars, qvars, cvars, rvars, gvars>>
    /\ UNCHANGED <<stopper, runner, sub, save, storerWg, storerDone, instanceLock,
                   instanceMutex, databaseID>>

\* ListenAndServe returns http.ErrServerClosed once Shutdown has been called;
\* main returns and its deferred calls begin with wg.Wait().
ServerClosed ==
    /\ mainpc = "serving"
    /\ shutdown \in {"shutting", "done"}
    /\ mainpc' = "wgWait"
    /\ UNCHANGED <<tvars, qvars, cvars, rvars, gvars>>
    /\ UNCHANGED <<mainWg, stopper, shutdown, runner, sub, save, storerWg, storerDone,
                   instanceLock, instanceMutex, databaseID>>

\* ListenAndServe returns another error: `err != nil && ctx.Err() == nil` is
\* log.Fatal, which exits the process without the deferred calls.
ServeFails ==
    /\ mainpc = "serving"
    /\ mainpc' = IF ctxCancelled THEN "wgWait" ELSE "fatal"
    /\ UNCHANGED <<tvars, qvars, cvars, rvars, gvars>>
    /\ UNCHANGED <<mainWg, stopper, shutdown, runner, sub, save, storerWg, storerDone,
                   instanceLock, instanceMutex, databaseID>>

MainWgZero_NoWait == TRUE

\* defer wg.Wait() (main.go:108) blocks until the counter of main is zero.
MainWgZero == mainWg = 0

\* The deferred wg.Wait() is over and the deferred s.Close() runs:
\* m.closeOnce.Do(close(m.done)), then m.wg.Wait().
MainCloses ==
    /\ mainpc = "wgWait"
    /\ MainWgZero
    /\ mainpc' = "closing"
    /\ storerDone' = TRUE
    /\ UNCHANGED <<tvars, qvars, cvars, rvars, gvars>>
    /\ UNCHANGED <<mainWg, stopper, shutdown, runner, sub, save, storerWg, instanceLock,
                   instanceMutex, databaseID>>

\* m.wg.Wait() of Close returns, the handle is closed, stop() runs, main returns.
MainExits ==
    /\ mainpc = "closing"
    /\ storerWg = 0
    /\ mainpc' = "exited"
    /\ UNCHANGED <<tvars, qvars, cvars, rvars, gvars>>
    /\ UNCHANGED <<mainWg, stopper, shutdown, runner, sub, save, storerWg, storerDone,
                   instanceLock, instanceMutex, databaseID>>

\* main.go:113-115: <-ctx.Done(); instance.Lock(); instance.StoppedAt = time.Now()
StopperWakes ==
    /\ Running
    /\ stopper = "waitCtx"
    /\ ctxCancelled
    /\ instanceMutex = "free"
    /\ instanceMutex' = "stopper"
    /\ stopper' = "writeStoppedAt"
    /\ UNCHANGED <<tvars, qvars, cvars, rvars, gvars>>
    /\ UNCHANGED <<mainpc, mainWg, shutdown, runner, sub, save, storerWg, storerDone,
                   instanceLock, databaseID>>

\* main.go:116-122: instance.Unlock(); the stopped-at update is submitted on
\* context.Background(); the deferred wg.Done() runs.
StopperSubmits ==
    /\ Running
    /\ stopper = "writeStoppedAt"
    /\ instanceMutex' = "free"
    /\ sub' = Queued("stoppedAt")
    /\ storerWg' = storerWg + 1
    /\ stopper' = "done"
    /\ mainWg' = mainWg - 1
    /\ UNCHANGED <<tvars, qvars, cvars, rvars, gvars>>
    /\ UNCHANGED <<mainpc, shutdown, runner, save, storerDone, instanceLock, databaseID>>

\* main.go:155-158: <-ctx.Done(); server.Shutdown(ctx) is called.
ShutdownWakes ==
    /\ Running
    /\ shutdown = "waitCtx"
    /\ ctxCancelled
    /\ shutdown' = "shutting"
    /\ UNCHANGED <<tvars, qvars, cvars, rvars, gvars>>
    /\ UNCHANGED <<mainpc, mainWg, stopper, runner, sub, save, storerWg, storerDone,
                   instanceLock, instanceMutex, databaseID>>

\* server.Shutdown returns (at the latest after its second); wg.Done().
ShutdownReturns ==
    /\ Running
    /\ shutdown = "shutting"
    /\ shutdown' = "done"
    /\ mainWg' = mainWg - 1
    /\ UNCHANGED <<tvars, qvars, cvars, rvars, gvars>>
    /\ UNCHANGED <<mainpc, stopper, runner, sub, save, storerWg, storerDone, instanceLock,
                   instanceMutex, databaseID>>

\* main.go:141-142: c.Run has returned; the deferred wg.Done() runs.
RunnerDone ==
    /\ Running
    /\ runner = "running"
    /\ rpc = "returned"
    /\ runner' = "done"
    /\ mainWg' = mainWg - 1
    /\ UNCHANGED <<tvars, qvars, cvars, rvars, gvars>>
    /\ UNCHANGED <<mainpc, stopper, shutdown, sub, save, storerWg, storerDone, instanceLock,
                   instanceMutex, databaseID>>

\* ------------------------------------- the tasks of the daemon's submissions
\* Where a submission goes after a failed attempt: back to its loop for the next
\* schedule entry, or out of it (schedule exhausted, dyingBreath stop).
AfterFailure == {"queued", "done"}

\* The next attempt of the submission calls its task: UpdatePublicIPv4 first for
\* the public-IP update (main.go:128), s.UpdateInstance for the others.
BeginUpdate(u) ==
    /\ Running
    /\ sub[u] = "queued"
    /\ sub' = [sub EXCEPT ![u] = IF u = "publicIP" THEN "dns" ELSE "update"]
    /\ UNCHANGED <<tvars, qvars, cvars, rvars, gvars>>
    /\ UNCHANGED <<mainpc, mainWg, stopper, shutdown, runner, save, storerWg, storerDone,
                   instanceLock, instanceMutex, databaseID>>

\* UpdatePublicIPv4: the DNS exchange fails or has no single A answer.
DNSFails ==
    /\ Running
    /\ sub["publicIP"] = "dns"
    /\ \E nxt \in AfterFailure :
          /\ sub' = [sub EXCEPT !["publicIP"] = nxt]
          /\ storerWg' = IF nxt = "done" THEN storerWg - 1 ELSE storerWg
    /\ UNCHANGED <<tvars, qvars, cvars, rvars, gvars>>
    /\ UNCHANGED <<mainpc, mainWg, stopper, shutdown, runner, save, storerDone,
                   instanceLock, instanceMutex, databaseID>>

\* UpdatePublicIPv4: i.Lock(); i.PublicIPv4 = a.A.String() is being written.
DNSAnswers ==
    /\ Running
    /\ sub["publicIP"] = "dns"
    /\ instanceMutex = "free"
    /\ instanceMutex' = "publicIP"
    /\ sub' = [sub EXCEPT !["publicIP"] = "writeIP"]
    /\ UNCHANGED <<tvars, qvars, cvars, rvars, gvars>>
    /\ UNCHANGED <<mainpc, mainWg, stopper, shutdown, runner, save, storerWg, storerDone,
                   instanceLock, databaseID>>

\* The deferred i.Unlock(); the task goes on to s.UpdateInstance(ctx, instance).
IPWritten ==
    /\ Running
    /\ sub["publicIP"] = "writeIP"
    /\ instanceMutex' = "free"
    /\ sub' = [sub EXCEPT !["publicIP"] = "update"]
    /\ UNCHANGED <<tvars, qvars, cvars, rvars, gvars>>
    /\ UNCHANGED <<mainpc, mainWg, stopper, shutdown, runner, save, storerWg, storerDone,
                   instanceLock, databaseID>>

\* UpdateInstance: m.instanceLock.Lock(); updateInstance builds its INSERT from
\* instance.UUID, AppID, Hostname, PublicIPv4, StartedAt and StoppedAt.
LockInstance(u) ==
    /\ Running
    /\ sub[u] = "update"
    /\ instanceLock = "free"
    /\ instanceLock' = u
    /\ sub' = [sub EXCEPT ![u] = "reading"]
    /\ UNCHANGED <<tvars, qvars, cvars, rvars, gvars>>
    /\ UNCHANGED <<mainpc, mainWg, stopper, shutdown, runner, save, storerWg, storerDone,
                   instanceMutex, databaseID>>

\* The INSERT fails: updateInstance returns the error, the lock is released and
\* DatabaseID is left as it was.
UpdateFails(u) ==
    /\ Running
    /\ sub[u] = "reading"
    /\ instanceLock' = "free"
    /\ \E nxt \in AfterFailure :
          /\ sub' = [sub EXCEPT ![u] = nxt]
          /\ storerWg' = IF nxt = "done" THEN storerWg - 1 ELSE storerWg
    /\ UNCHANGED <<tvars, qvars, cvars, rvars, gvars>>
    /\ UNCHANGED <<mainpc, mainWg, stopper, shutdown, runner, save, storerDone,
                   instanceMutex, databaseID>>

\* The INSERT succeeds: instance.DatabaseID = id is being written.
UpdateSucceeds(u) ==
    /\ Running
    /\ sub[u] = "reading"
    /\ sub' = [sub EXCEPT ![u] = "writeID"]
    /\ UNCHANGED <<tvars, qvars, cvars, rvars, gvars>>
    /\ UNCHANGED <<mainpc, mainWg, stopper, shutdown, runner, save, storerWg, storerDone,
                   instanceLock, instanceMutex, databaseID>>

\* DatabaseID is written, the lock is released, the task returns nil and the
\* submission returns.
UpdateReturns(u) ==
    /\ Running
    /\ sub[u] = "writeID"
    /\ databaseID' = 1
    /\ instanceLock' = "free"
    /\ sub' = [sub EXCEPT ![u] = "done"]
    /\ storerWg' = storerWg - 1
    /\ UNCHANGED <<tvars, qvars, cvars, rvars, gvars>>
    /\ UNCHANGED <<mainpc, mainWg, stopper, shutdown, runner, save, storerDone,
                   instanceMutex>>

\* The next attempt of a cycle's submission calls c.storer.SaveCheckResults(ctx, r):
\* its INSERT takes result.Instance.DatabaseID, read through the pointer.
BeginSave(c) ==
    /\ Running
    /\ save[c] = "queued"
    /\ save' = [save EXCEPT ![c] = "insert"]
    /\ UNCHANGED <<tvars, qvars, cvars, rvars, gvars>>
    /\ UNCHANGED <<mainpc, mainWg, stopper, shutdown, runner, sub, storerWg, storerDone,
                   instanceLock, instanceMutex, databaseID>>

\* SaveCheckResults returns: nil ends the submission, an error is retried or not.
SaveReturns(c) ==
    /\ Running
    /\ save[c] = "insert"
    /\ \E nxt \in AfterFailure :
          /\ save' = [save EXCEPT ![c] = nxt]
          /\ storerWg' = IF nxt = "done" THEN storerWg - 1 ELSE storerWg
    /\ UNCHANGED <<tvars, qvars, cvars, rvars, gvars>>
    /\ UNCHANGED <<mainpc, mainWg, stopper, shutdown, runner, sub, storerDone,
                   instanceLock, instanceMutex, databaseID>>

\* ------------------------------------------------ AnalyzeLongestGapPerApp
AppRank(a) == CHOOSE i \in DOMAIN AppIDs : AppIDs[i] = a

\* ORDER BY app_id, ts ASC: may row come right after the rows read so far?
InOrder(row) ==
    IF rows = <<>> THEN TRUE
    ELSE LET prev == rows[Len(rows)] IN
         \/ AppRank(prev.app) < AppRank(row.app)
         \/ prev.app = row.app /\ prev.ts <= row.ts

\* time.Time.Sub: the difference, saturated at the longest Duration.
Sub(t, u) == IF t - u > MaxDuration THEN MaxDuration ELSE t - u

ShouldOutput_AnyApp == maxInterval > 0

ShouldOutput_NonNegative == lastAppID # "" /\ maxInterval >= 0

\* if lastAppID != "" && maxInterval > 0 {
ShouldOutput == lastAppID # "" /\ maxInterval > 0

\* output(lastAppID, maxInterval, maxIntervalTS) under that condition.
Flushed ==
    IF ShouldOutput
    THEN Append(emitted, [app |-> lastAppID, interval |-> maxInterval, ts |-> maxIntervalTS])
    ELSE emitted

\* q.RunWith(m.db).QueryContext(ctx) returns an error: return err.
QueryFails ==
    /\ gpc = "query"
    /\ gpc' = "returned"
    /\ gerr' = "query"
    /\ UNCHANGED <<tvars, qvars, cvars, rvars, mvars>>
    /\ UNCHANGED <<rows, maxInterval, maxIntervalTS, lastTS, lastAppID, emitted>>

\* The query succeeds: defer rows.Close() and the scan begins.
QueryRuns ==
    /\ gpc = "query"
    /\ gpc' = "scan"
    /\ UNCHANGED <<tvars, qvars, cvars, rvars, mvars>>
    /\ UNCHANGED <<rows, maxInterval, maxIntervalTS, lastTS, lastAppID, emitted, gerr>>

Longer_OrEqual(interval) == interval >= maxInterval

\* if interval > maxInterval {
Longer(interval) == interval > maxInterval

\* One iteration of for rows.Next() with a row that scans.
ScanRow ==
    /\ gpc = "scan"
    /\ Len(rows) < MaxRows
    /\ \E row \in RowSet :
          /\ InOrder(row)
          /\ rows' = Append(rows, row)
          /\ IF row.app # lastAppID
             THEN /\ emitted' = Flushed
                  /\ lastAppID' = row.app
                  /\ lastTS' = row.ts
                  /\ maxIntervalTS' = row.ts
                  /\ maxInterval' = -1
             ELSE /\ IF Longer(Sub(row.ts, lastTS))
                     THEN /\ maxInterval' = Sub(row.ts, lastTS)
                          /\ maxIntervalTS' = row.ts
                     ELSE UNCHANGED <<maxInterval, maxIntervalTS>>
                  /\ lastTS' = row.ts
                  /\ UNCHANGED <<emitted, lastAppID>>
    /\ UNCHANGED <<tvars, qvars, cvars, rvars, mvars>>
    /\ UNCHANGED <<gpc, gerr>>

\* rows.Scan(&appID, &ts) returns an error: return err.
ScanFails ==
    /\ gpc = "scan"
    /\ Len(rows) < MaxRows
    /\ gpc' = "returned"
    /\ gerr' = "scan"
    /\ UNCHANGED <<tvars, qvars, cvars, rvars, mvars>>
    /\ UNCHANGED <<rows, maxInterval, maxIntervalTS, lastTS, lastAppID, emitted>>

\* rows.Next() returns false, at the end of the rows or on an error of the
\* iteration: the last app is flushed and rows.Err() is returned.
RowsEnd ==
    /\ gpc = "scan"
    /\ emitted' = Flushed
    /\ gerr' \in {"nil", "rows"}
    /\ gpc' = "returned"
    /\ UNCHANGED <<tvars, qvars, cvars, rvars, mvars>>
    /\ UNCHANGED <<rows, maxInterval, maxIntervalTS, lastTS, lastAppID>>

\* ------------------------------------------- mysqlStorer.SaveCheckResults
\* A result as SaveCheckResults tests it: len(result.Errors) > 0 and
\* len(result.Measurements) > 0.
ResultShapes == [errors : BOOLEAN, measurements : BOOLEAN]

\* The tables a result has rows for.
TablesOf(r) ==
    {"checks"} \cup (IF r.errors THEN {"check_errors"} ELSE {})
               \cup (IF r.measurements THEN {"check_measurements"} ELSE {})

\* A deferred function that commits where it should roll back.
Rollback_Keeps(d, t) == IF t = {} THEN d ELSE Append(d, t)

\* tx.Rollback(): the rows of the transaction t are discarded, d stays.
Rollback(d, t) == d

\* tx.Commit() succeeding: the rows of the transaction t are persisted.
Commit(d, t) == Append(d, t)

\* The frame of the actions of SaveCheckResults.
OnlySave == UNCHANGED <<qvars, cvars, rvars, gvars, mvars>>

\* The first call for a result.
SaveCalled(r) ==
    /\ txpc = "idle"
    /\ txResult' = r
    /\ txpc' = "beginTx"
    /\ UNCHANGED <<tx, txErr, db, returns>>
    /\ OnlySave

\* The call has returned an error and the retry loop calls again.
SaveRetried ==
    /\ txpc = "returned"
    /\ txErr # "nil"
    /\ Len(returns) < MaxAttempts
    /\ txpc' = "beginTx"
    /\ UNCHANGED <<txResult, tx, txErr, db, returns>>
    /\ OnlySave

\* tx, err := m.db.BeginTx(...); on an error the call returns before the defer.
BeginTx ==
    /\ txpc = "beginTx"
    /\ \E ok \in BOOLEAN :
          IF ok
          THEN /\ txpc' = "checks"
               /\ txErr' = "nil"
               /\ UNCHANGED returns
          ELSE /\ txpc' = "returned"
               /\ txErr' = "starting transaction"
               /\ returns' = Append(returns, txErr')
    /\ tx' = {}
    /\ UNCHANGED <<txResult, db>>
    /\ OnlySave

\* r, err := sq.Insert("checks")...ExecContext(ctx)
InsertCheck ==
    /\ txpc = "checks"
    /\ \E ok \in BOOLEAN :
          IF ok
          THEN /\ tx' = tx \cup {"checks"}
               /\ txpc' = "lastInsertId"
               /\ UNCHANGED txErr
          ELSE /\ txErr' = "storing check result"
               /\ txpc' = "deferred"
               /\ UNCHANGED tx
    /\ UNCHANGED <<txResult, db, returns>>
    /\ OnlySave

\* id, err := r.LastInsertId()
LastInsertId ==
    /\ txpc = "lastInsertId"
    /\ \E ok \in BOOLEAN :
          IF ok
          THEN /\ txpc' = "check_errors"
               /\ UNCHANGED txErr
          ELSE /\ txErr' = "last insert id"
               /\ txpc' = "deferred"
    /\ UNCHANGED <<txResult, tx, db, returns>>
    /\ OnlySave

\* if len(result.Errors) > 0 { ... q.RunWith(tx).ExecContext(ctx) }
InsertErrors ==
    /\ txpc = "check_errors"
    /\ IF ~txResult.errors
       THEN /\ txpc' = "check_measurements"
            /\ UNCHANGED <<tx, txErr>>
       ELSE \E ok \in BOOLEAN :
              IF ok
              THEN /\ tx' = tx \cup {"check_errors"}
                   /\ txpc' = "check_measurements"
                   /\ UNCHANGED txErr
              ELSE /\ txErr' = "storing errors"
                   /\ txpc' = "deferred"
                   /\ UNCHANGED tx
    /\ UNCHANGED <<txResult, db, returns>>
    /\ OnlySave

\* if len(result.Measurements) > 0 { ... q.RunWith(tx).ExecContext(ctx) }; return nil
InsertMeasurements ==
    /\ txpc = "check_measurements"
    /\ IF ~txResult.measurements
       THEN /\ txpc' = "deferred"
            /\ UNCHANGED <<tx, txErr>>
       ELSE \E ok \in BOOLEAN :
              IF ok
              THEN /\ tx' = tx \cup {"check_measurements"}
                   /\ UNCHANGED txErr
              ELSE /\ txErr' = "storing measurements"
                   /\ UNCHANGED tx
    /\ txpc' = "deferred"
    /\ UNCHANGED <<txResult, db, returns>>
    /\ OnlySave

\* defer func() { if err != nil { tx.Rollback() } else { err = tx.Commit() } }()
Deferred ==
    /\ txpc = "deferred"
    /\ IF txErr # "nil"
       THEN /\ db' = Rollback(db, tx)
            /\ UNCHANGED txErr
       ELSE \E ok \in BOOLEAN :
              IF ok
              THEN /\ db' = Commit(db, tx)
                   /\ UNCHANGED txErr
              ELSE /\ db' = db
                   /\ txErr' = "commit"
    /\ tx' = {}
    /\ txpc' = "returned"
    /\ returns' = Append(returns, txErr')
    /\ UNCHANGED txResult
    /\ OnlySave

\* ----------------------------------------------- properties: retry queue
Active == {"loop", "select", "check", "exec"}

\* The entry the retry of attempt n is expected to leave in the result.
ExpectedEntry(n) ==
    [Check |-> <<"result_save_attempt_", DigitChar[n + 1]>>,
     Error |-> <<"failed to save on attempt", n>>]

NoSignal == ~ctxCancelled /\ ~done

Failures(s) == {n \in DOMAIN execLog[s] : ~execLog[s][n].ok}

Successes(s) == {n \in DOMAIN execLog[s] : execLog[s][n].ok}

ErrorLines(s) == {n \in DOMAIN logs[s] : logs[s][n][1] = "error"}

\* C1: a submission whose task fails K times and then succeeds is written to the
\* store exactly once, and the written result is the submitted errors followed by
\* result_save_attempt_1 .. result_save_attempt_K, each with the error text of
\* that attempt; without cancellation or shutdown the submission does not give up
\* while schedule entries remain.
C1_SavedOnceWithRetryErrors ==
    \A s \in Subs :
        /\ Len(saved[s]) <= 1
        /\ saved[s] # <<>> =>
              LET K == Len(execLog[s]) - 1 IN
              /\ \A n \in 1..K : ~execLog[s][n].ok /\ execLog[s][n].attempt = n
              /\ execLog[s][K + 1].ok
              /\ saved[s][1] = submitted[s] \o [n \in 1..K |-> ExpectedEntry(n)]
        /\ (pc[s] = "done" /\ NoSignal /\ Len(execLog[s]) < Len(attemptSchedule[s]))
              => saved[s] # <<>>

C1_Witness ==
    /\ pc["s1"] = "done"
    /\ NoSignal
    /\ submitted["s1"] # <<>>
    /\ Len(execLog["s1"]) = 3
    /\ Len(saved["s1"]) = 1
    /\ Len(saved["s1"][1]) = 3

\* C2: the task is executed with attempt numbers 1, 2, .. in order and never more
\* often than the schedule is long, under every interleaving; a task that always
\* fails, without cancellation or shutdown, is executed exactly len(schedule) times
\* and the submission then logs exactly one error-level line and returns.
C2_ExactlyScheduleLengthAttempts ==
    \A s \in Subs :
        /\ Len(execLog[s]) <= Len(attemptSchedule[s])
        /\ \A n \in DOMAIN execLog[s] : execLog[s][n].attempt = n
        /\ pc[s] = "exec" => Attempt(s) = Len(execLog[s]) + 1
                             /\ Attempt(s) <= Len(attemptSchedule[s])
        /\ Cardinality(ErrorLines(s)) <= 1
        /\ (pc[s] = "done" /\ NoSignal /\ Successes(s) = {}) =>
              /\ Len(execLog[s]) = Len(attemptSchedule[s])
              /\ logs[s] # <<>>
              /\ logs[s][Len(logs[s])] = <<"error", Len(attemptSchedule[s])>>
              /\ Cardinality(ErrorLines(s)) = 1

C2_Witness ==
    /\ pc["s1"] = "done"
    /\ NoSignal
    /\ Len(attemptSchedule["s1"]) = 3
    /\ Cardinality(Failures("s1")) = 3
    /\ Cardinality(ErrorLines("s1")) = 1

\* C7: a successful attempt is the last thing a submission does: it is the last
\* execution, the submission has returned, the result holds no entry for the
\* successful attempt, no error-level line is logged and nothing is written twice.
C7_SuccessReturnsAtOnce ==
    \A s \in Subs : \A n \in Successes(s) :
        /\ n = Len(execLog[s])
        /\ pc[s] = "done"
        /\ Successes(s) = {n}
        /\ saved[s] = <<result[s]>>
        /\ Len(result[s]) = Len(submitted[s]) + (n - 1)
        /\ ErrorLines(s) = {}

C7_Witness ==
    /\ pc["s1"] = "done"
    /\ Successes("s1") = {2}
    /\ Len(attemptSchedule["s1"]) = 3

\* C3: for either Storer, a Close call that follows a submission returns only
\* with the shutdown signal fired, the wg counter at zero and no submission still
\* in its retry loop.
C3_CloseSignalsAndDrains ==
    [][\A c \in Closers :
          (cpc[c] # "returned" /\ cpc'[c] = "returned" /\ Submitted # {}) =>
              /\ done'
              /\ wg' = 0
              /\ \A s \in Subs : pc'[s] \notin Active]_vars

\* mysqlStorer.Close alone does what C3 asks of every Storer.
MySQLCloseSignalsAndDrains ==
    [][\A c \in Closers :
          (impl = "mysql" /\ cpc[c] # "returned" /\ cpc'[c] = "returned"
              /\ Submitted # {}) =>
              /\ done'
              /\ wg' = 0
              /\ \A s \in Subs : pc'[s] \notin Active]_vars

\* C4: over any number of sequential or concurrent Close calls close(done) is
\* executed at most once, and exactly once when the Once has run.
C4_DoneClosedOnce ==
    /\ closeCount <= 1
    /\ done <=> closeCount = 1
    /\ closeOnce <=> closeCount = 1
    /\ (\E c \in Closers : impl = "mysql" /\ cpc[c] # "idle") => closeCount = 1

C4_Witness ==
    /\ impl = "mysql"
    /\ \A c \in Closers : cpc[c] # "idle"
    /\ \E c \in Closers : cpc[c] = "returned"
    /\ closeCount = 1

\* C5: when the shutdown signal fired or the caller's ctx was cancelled while the
\* submission was in its backoff wait, the attempt after that wait runs on a
\* grace-period context created for this attempt.
C5_SignalInWaitGivesFreshCtx ==
    \A s \in Subs :
        (pc[s] = "exec" /\ sigInWait[s]) =>
            /\ wctx[s].kind = "grace"
            /\ wctx[s].born = Attempt(s)

\* C6: an attempt on a grace-period context is the last one of its submission:
\* when it has returned, the submission has returned or is leaving a loop that
\* has no schedule entry left, and it takes up no further entry.
C6_OneAttemptOnGraceCtx ==
    \A s \in Subs : \A n \in DOMAIN execLog[s] :
        execLog[s][n].kind = "grace" =>
            /\ n = Len(execLog[s])
            /\ pc[s] = "done" \/ (pc[s] = "loop" /\ ~ScheduleLeft(s))

\* C16: a caller inside AsyncQueryRetry can always return, whatever the
\* goroutine of the submission is doing (waiting for a delay, inside an
\* execution of the task that may never return, failing again and again); the
\* return changes nothing of the submission and carries no error.
C16_SubmitNeverWaits ==
    \A s \in Subs : caller[s] = "in" => ENABLED SubmitReturns(s)

C16_Witness ==
    /\ caller["s1"] = "returned"
    /\ pc["s1"] = "select"
    /\ ~timerFired["s1"]
    /\ execLog["s1"] = <<>>
    /\ NoSignal

\* C17: a submission with a nil task is turned away by the call itself: its
\* goroutine is never started, the wg counter is not incremented for it, and
\* the failure never shows up in an attempt.
C17_NilTaskRejectedAtSubmission ==
    \A s \in Subs :
        task[s] = "nil" =>
            /\ pc[s] = "idle"
            /\ wg = Cardinality({t \in Subs \ {s} : pc[t] \in Active})

\* What the code does with a nil task: it panics in its first attempt, after
\* the wait of the first schedule entry.
NilTaskPanicsInAttempt ==
    /\ task["s1"] = "nil"
    /\ pc["s1"] = "panic"
    /\ attemptSchedule["s1"][1] > 0
    /\ caller["s1"] = "returned"

\* C18: a submission that has returned has had a successful attempt or has
\* logged an error-level line, also when it ended on a failed attempt made
\* after cancellation or shutdown.
C18_ReturnedMeansSavedOrErrorLogged ==
    \A s \in Subs :
        pc[s] = "done" => (Successes(s) # {} \/ ErrorLines(s) # {})

\* C19: the Errors list of the caller of an asynchronous save is, from the
\* submission on, the list it was at the submission, for a caller of
\* asyncSaveCheckResults and for the cycle of checker.Run alike.
C19_CallerResultUnchanged ==
    \A s \in Subs :
        pc[s] # "idle" =>
            /\ ValueCallerErrors(s) = submitted[s]
            /\ ClosureCallerErrors(s) = submitted[s]

\* The caller of asyncSaveCheckResults alone keeps its list.
ValueCallerResultUnchanged ==
    \A s \in Subs : pc[s] # "idle" => ValueCallerErrors(s) = submitted[s]

IsPrefix(p, q) == Len(p) <= Len(q) /\ SubSeq(q, 1, Len(p)) = p

\* C20: from its submission on the Errors list of a submission only grows: each
\* step leaves the former list as a prefix of the new one, so the list an
\* attempt saves starts with the list of every earlier attempt and with the
\* errors present at the submission.
C20_ErrorsOnlyGrow ==
    [][\A s \in Subs :
          pc[s] \in Active =>
              /\ IsPrefix(result[s], result'[s])
              /\ IsPrefix(submitted[s], result'[s])]_vars

C20_Witness ==
    /\ pc["s1"] = "exec"
    /\ Attempt("s1") = 3
    /\ submitted["s1"] # <<>>
    /\ Len(result["s1"]) = Len(submitted["s1"]) + 2

\* C23: within one submission the attempts follow one another: attempt n+1 is
\* started only when the n attempts before it have all returned a failure, and
\* only after the wait for schedule entry n+1 is over (a positive entry is
\* waited for in the select, which is left only through a ready case).
C23_AttemptsSequential ==
    [][\A s \in Subs :
         /\ (pc'[s] = "exec" /\ pc[s] # "exec") =>
               /\ pc[s] = "check"
               /\ Len(execLog[s]) = idx[s]
               /\ Successes(s) = {}
         /\ (pc'[s] = "check" /\ pc[s] # "check") =>
               \/ pc[s] = "loop" /\ attemptSchedule[s][idx[s] + 1] = 0
               \/ /\ pc[s] = "select"
                  /\ attemptSchedule[s][idx[s] + 1] > 0
                  /\ timerFired[s] \/ CtxErr(s) \/ done
         /\ (pc'[s] = "select" /\ pc[s] # "select") => pc[s] = "loop"
         /\ (pc'[s] = "loop" /\ pc[s] # "loop") =>
               \/ pc[s] = "idle"
               \/ pc[s] = "exec" /\ idx'[s] = idx[s] + 1 /\ Failures(s)' = 1..idx'[s]]_vars

C23_Witness ==
    /\ pc["s1"] = "exec"
    /\ idx["s1"] = 2
    /\ attemptSchedule["s1"] = <<0, 1, 1>>
    /\ Failures("s1") = {1, 2}
    /\ ~dyingBreath["s1"]

WaitLeftThroughReadyCase ==
    [][\A s \in Subs :
         /\ (pc[s] = "loop" /\ pc'[s] = "check") =>
               attemptSchedule[s][idx[s] + 1] = 0 /\ ~dyingBreath'[s]
         /\ (pc[s] = "loop" /\ pc'[s] = "select") => attemptSchedule[s][idx[s] + 1] > 0
         /\ (pc[s] = "select" /\ pc'[s] = "check") =>
               /\ timerFired[s] \/ CtxErr(s) \/ done
               /\ dyingBreath'[s] => (CtxErr(s) \/ done)
               /\ ~timerFired[s] => dyingBreath'[s]]_vars

\* C26: with executions that return, timers that fire and goroutines that are
\* scheduled, every submission returns and its wg.Done() has run, every Close of
\* the MySQL storer that waits on the counter returns, and a submission in its
\* backoff wait with done closed leaves the wait.
C26_SubmissionsAndCloseReturn ==
    /\ \A s \in Subs : (pc[s] # "idle") ~> (pc[s] = "done" /\ wg < Cardinality(Submitted))
    /\ \A c \in Closers : (cpc[c] = "waiting") ~> (cpc[c] = "returned" /\ wg = 0)
    /\ \A s \in Subs : (done /\ pc[s] = "select") ~> (pc[s] # "select")

C26_Witness ==
    /\ impl = "mysql"
    /\ cpc["c1"] = "returned"
    /\ pc["s1"] = "done"
    /\ dyingBreath["s1"] /\ ~ctxCancelled
    /\ Len(execLog["s1"]) = 2
    /\ wg = 0

\* C27: a submission that is in its backoff wait when done is closed leaves the
\* wait for a dyingBreath attempt, and no submission starts more than one
\* attempt once done is closed.
C27_OneFinalAttemptAfterShutdown ==
    [][\A s \in Subs :
         /\ afterSignal'[s] <= 1
         /\ (pc[s] = "select" /\ pc'[s] = "check" /\ sigInWait[s] /\ done /\ ~ctxCancelled) =>
               dyingBreath'[s]]_vars

\* What holds: an attempt marked dyingBreath is the last of its submission.
DyingBreathAttemptIsLast ==
    [][\A s \in Subs :
         (pc[s] = "exec" /\ dyingBreath[s]) => pc'[s] \in {"exec", "done"}]_vars

\* C28: submissions do not wait for one another, and a step of one submission
\* (a failed attempt, the start or the end of a wait, a dyingBreath return)
\* leaves the loop index, the accumulated errors, the last error and the
\* execution log of every other submission as they were.
C28_SubmissionsIndependent ==
    [][\A s \in Subs : \A t \in Subs \ {s} :
         (pc'[s] # pc[s] \/ idx'[s] # idx[s] \/ result'[s] # result[s]) =>
             /\ pc'[t] = pc[t]
             /\ idx'[t] = idx[t]
             /\ result'[t] = result[t]
             /\ err'[t] = err[t]
             /\ execLog'[t] = execLog[t]
             /\ dyingBreath'[t] = dyingBreath[t]]_vars

C28_Witness ==
    /\ pc["s1"] = "exec" /\ pc["s2"] = "exec"
    /\ dyingBreath["s1"] /\ ~dyingBreath["s2"]

\* C33: the wg counter is never negative and always equals the number of
\* submissions whose goroutine has been started and has not returned: it is
\* raised before AsyncQueryRetry returns to its caller and lowered once when the
\* goroutine returns, after a success, an exhausted schedule or a dyingBreath stop.
C33_CounterCountsRunningSubmissions ==
    /\ wg >= 0
    /\ wg = Cardinality({s \in Subs : pc[s] \in Active})
    /\ \A s \in Subs : caller[s] = "returned" => pc[s] # "idle"

C33_Witness ==
    /\ wg = 1
    /\ pc["s1"] = "done" /\ dyingBreath["s1"] /\ Failures("s1") = {1}
    /\ pc["s2"] = "select"
    /\ caller["s1"] = "returned"

\* C34: a submission with a non-empty schedule comes to execute its task at
\* least once, whatever the state of its ctx and of done when it was made; a
\* submission with an empty schedule never executes the task and returns.
C34_TaskExecutedAtLeastOnce ==
    /\ \A s \in Subs :
          [](pc[s] = "done" => (attemptSchedule[s] # <<>> <=> execLog[s] # <<>>))
    /\ \A s \in Subs :
          (pc[s] # "idle" /\ attemptSchedule[s] # <<>>) ~> (execLog[s] # <<>>)
    /\ \A s \in Subs :
          (pc[s] # "idle" /\ attemptSchedule[s] = <<>>) ~> (pc[s] = "done" /\ execLog[s] = <<>>)

\* The first entry is not waited for and the ctx is already cancelled and done
\* closed when the first attempt starts: the attempt is made on a grace ctx.
C34_Witness ==
    /\ pc["s1"] = "done"
    /\ attemptSchedule["s1"] = <<0>>
    /\ ctxCancelled /\ done
    /\ Len(execLog["s1"]) = 1
    /\ execLog["s1"][1].kind = "grace" /\ execLog["s1"][1].born = 1

\* ---------------------------------------------------- properties: daemon
\* C35: in the daemon every AsyncQueryRetry call (registration, public-IP update,
\* stopped-at update, the save of each cycle of Run) is made before s.Close()
\* begins: no step raises the storer's counter once Close has begun, and when
\* Close begins every goroutine that submits has ended.
C35_SubmissionsPrecedeClose ==
    [][/\ storerWg' > storerWg =>
             (mainpc \notin {"closing", "exited"} /\ mainpc' \notin {"closing", "exited"})
       /\ (mainpc' = "closing" /\ mainpc # "closing") =>
             /\ stopper = "done"
             /\ runner \in {"unstarted", "done"}
             /\ rpc \in {"uncalled", "returned"}
             /\ \A c \in Cycles : cyc[c] \in {"unstarted", "done"}]_vars

C35_Witness ==
    /\ mainpc = "exited"
    /\ \A u \in Updates : sub[u] = "done"
    /\ handed[1] /\ save[1] = "done"
    /\ storerWg = 0

\* C39: a check result is written only after the instance is registered: whenever
\* SaveCheckResults is inserting, the DatabaseID it reads has been assigned.
C39_SaveOnlyAfterRegistration ==
    \A c \in Cycles : save[c] = "insert" => databaseID # 0

\* What holds: only updateInstance assigns DatabaseID, and an assigned DatabaseID
\* is never zero again, so a save that begins after a successful UpdateInstance
\* records a registered instance.
DatabaseIDAssignedOnlyByUpdateInstance ==
    [][/\ databaseID' # databaseID => \E u \in Updates : sub[u] = "writeID" /\ sub'[u] = "done"
       /\ databaseID # 0 => databaseID' # 0]_vars

\* A save is inserting while the registration is still waiting for its retry.
SaveBeforeRegistration ==
    /\ \E c \in Cycles : save[c] = "insert"
    /\ sub["register"] = "queued"
    /\ databaseID = 0

\* The accesses to the shared Instance that are under way.
WritingPublicIPv4 == sub["publicIP"] = "writeIP"

WritingStoppedAt == stopper = "writeStoppedAt"

WritingDatabaseID(u) == sub[u] = "writeID"

\* updateInstance is reading PublicIPv4 and StoppedAt for its INSERT.
ReadingInstance(u) == sub[u] = "reading"

\* SaveCheckResults is reading DatabaseID for its INSERT.
ReadingDatabaseID(c) == save[c] = "insert"

\* C40: the accesses to the shared Instance are mutually exclusive: no write of
\* PublicIPv4, StoppedAt or DatabaseID happens while another submission's
\* UpdateInstance or a SaveCheckResults reads or writes that field.
C40_InstanceAccessesExclusive ==
    /\ WritingPublicIPv4 => \A u \in Updates \ {"publicIP"} : ~ReadingInstance(u)
    /\ WritingStoppedAt => \A u \in Updates : ~ReadingInstance(u)
    /\ \A u \in Updates :
          WritingDatabaseID(u) =>
              /\ \A v \in Updates \ {u} : ~WritingDatabaseID(v)
              /\ \A c \in Cycles : ~ReadingDatabaseID(c)

\* What holds: m.instanceLock keeps the UpdateInstance calls apart from each
\* other, so DatabaseID has one writer at a time.
UpdateInstanceCallsExclusive ==
    \A u, v \in Updates :
        (sub[u] \in {"reading", "writeID"} /\ sub[v] \in {"reading", "writeID"}) => u = v

\* What holds: the Instance's own mutex keeps the write of PublicIPv4 and the
\* write of StoppedAt apart.
FieldWritesExclusive == ~(WritingPublicIPv4 /\ WritingStoppedAt)

\* The three pairs of accesses that no common lock separates.
PublicIPv4WrittenWhileRead == WritingPublicIPv4 /\ ReadingInstance("register")

StoppedAtWrittenWhileRead == WritingStoppedAt /\ ReadingInstance("publicIP")

DatabaseIDWrittenWhileRead ==
    \E u \in Updates, c \in Cycles : WritingDatabaseID(u) /\ ReadingDatabaseID(c)

\* ------------------------------------------------- properties: doChecks
\* How many entries of a list are filed under the given name.
Count(list, name) == Cardinality({i \in DOMAIN list : list[i].Check = name})

ErrorEntries(p) == Count(rErrors, <<p>>)

DurationEntries(p) == Count(rMeasurements, <<p, "_duration">>)

\* C8: a check that returned an error when the ctx of doChecks was already
\* cancelled has neither an error entry nor a <check>_duration measurement in
\* the returned result.
C8_FailureAfterCancelSuppressed ==
    dpc = "returned" =>
        \A p \in Probes :
            (ferr[p] = "error" /\ ctxAtFinish[p]) =>
                ErrorEntries(p) = 0 /\ DurationEntries(p) = 0

C8_Witness ==
    /\ dpc = "returned"
    /\ ferr["dns"] = "error" /\ ctxAtFinish["dns"]
    /\ ferr["http"] = "error" /\ ~ctxAtFinish["http"] /\ ErrorEntries("http") = 1
    /\ ferr["db"] = "nil"

\* C9: a check that returned an error while the ctx of doChecks was not yet
\* cancelled has an error entry under its name in the returned result.
C9_FailureBeforeCancelRecorded ==
    dpc = "returned" =>
        \A p \in Probes :
            (ferr[p] = "error" /\ ~ctxAtFinish[p]) => ErrorEntries(p) = 1

\* C10: in the returned result every check that was not suppressed has exactly
\* one outcome entry, an error entry if it failed and a <check>_duration
\* measurement if it succeeded, never both; a suppressed check has none.
C10_OneOutcomePerCheck ==
    dpc = "returned" =>
        /\ Len(rErrors) + Cardinality({i \in DOMAIN rMeasurements :
                                         rMeasurements[i].Check[2] = "_duration"})
              = Cardinality(Probes \ suppressed)
        /\ \A p \in Probes :
              /\ p \in suppressed => ErrorEntries(p) = 0 /\ DurationEntries(p) = 0
              /\ (p \notin suppressed /\ ferr[p] = "error") =>
                    ErrorEntries(p) = 1 /\ DurationEntries(p) = 0
              /\ (p \notin suppressed /\ ferr[p] = "nil") =>
                    ErrorEntries(p) = 0 /\ DurationEntries(p) = 1

C10_Witness ==
    /\ dpc = "returned"
    /\ suppressed = {"dns"}
    /\ ErrorEntries("db") = 1
    /\ DurationEntries("http") = 1
    /\ rMeasurements[1].Check = <<"http", "_duration">>

\* C21: whoever calls doChecks, every check function is called with a ctx that
\* carries a deadline, and when the launching is over one goroutine has been
\* started per registered check.
C21_EveryCheckUnderDeadline ==
    /\ \A p \in Probes : upc[p] # "unlaunched" => HasDeadline(entry)
    /\ dpc \in {"wait", "returned"} =>
          /\ launched = Len(checks)
          /\ \A p \in Probes : upc[p] # "unlaunched"

\* The same of the calls from checker.Run alone.
RunChecksUnderDeadline == entry = "run" => C21_EveryCheckUnderDeadline

\* The measurements the check function of p returned are all in r.Measurements.
MeasurementsKept(p) ==
    Count(rMeasurements, <<p, "_value">>) = Len(fmeas[p])

\* C22: when doChecks returns and its ctx was never cancelled, whichever checks
\* failed, every check has run to completion, every failed check has exactly
\* one error entry, and every check that succeeded has its measurements and its
\* duration in the result.
C22_FailuresDoNotAbort ==
    (dpc = "returned" /\ ~checkCtxErr) =>
        /\ \A p \in Probes :
              /\ upc[p] = "done"
              /\ ferr[p] = "error" => ErrorEntries(p) = 1 /\ DurationEntries(p) = 0
              /\ ferr[p] = "nil" =>
                    /\ ErrorEntries(p) = 0
                    /\ DurationEntries(p) = 1
                    /\ MeasurementsKept(p)
        /\ Len(rErrors) = Cardinality({p \in Probes : ferr[p] = "error"})

C22_Witness ==
    /\ dpc = "returned" /\ ~checkCtxErr
    /\ ferr["dns"] = "error" /\ ferr["http"] = "error"
    /\ ferr["db"] = "nil" /\ fmeas["db"] # <<>>
    /\ Len(rErrors) = 2
    /\ Len(rMeasurements) = 2

\* The check goroutines between l.Lock() and the deferred l.Unlock().
InSection == {p \in Probes : upc[p] \in {"locked", "inside"}}

\* C24: at most one check goroutine at a time is between l.Lock() and
\* l.Unlock(), and it is the holder of l; r.Errors and r.Measurements change
\* only in a step of the holder; and a goroutine that ends (suppressed, error
\* or success) held l and leaves it free.
C24_ResultWrittenUnderLock ==
    [][/\ Cardinality(InSection') <= 1
       /\ \A p \in Probes : p \in InSection' <=> l' = p
       /\ (rErrors' # rErrors \/ rMeasurements' # rMeasurements) =>
             \E p \in Probes : l = p /\ upc[p] = "inside" /\ upc'[p] = "done"
       /\ \A p \in Probes :
             (upc'[p] = "done" /\ upc[p] # "done") => (l = p /\ l' = "free")]_vars

C24_Witness ==
    /\ upc["dns"] = "inside" /\ l = "dns"
    /\ upc["http"] = "finished"
    /\ upc["db"] = "done" /\ "db" \in suppressed

\* C30: only failures are suppressed: a check that returned no error has its
\* measurements and its <check>_duration in the result once its goroutine has
\* recorded, also when the ctx of doChecks was cancelled before the goroutine
\* entered the critical section, and it is never counted as suppressed.
C30_SuccessRecordedDespiteCancel ==
    \A p \in Probes :
        (upc[p] = "done" /\ ferr[p] = "nil") =>
            /\ DurationEntries(p) = 1
            /\ MeasurementsKept(p)
            /\ ErrorEntries(p) = 0
            /\ p \notin suppressed

C30_Witness ==
    /\ dpc = "returned"
    /\ ferr["dns"] = "nil" /\ ctxAtFinish["dns"] /\ fmeas["dns"] # <<>>
    /\ DurationEntries("dns") = 1
    /\ ferr["http"] = "error" /\ "http" \in suppressed
    /\ ferr["db"] = "nil" /\ ~ctxAtFinish["db"]

\* C11: doChecks returns only when every check goroutine it started has
\* recorded its outcome or been suppressed and has released the mutex, and once
\* it has returned nothing writes to the returned result.
C11_ReturnsAfterEveryCheck ==
    [][/\ dpc' = "returned" =>
             /\ launched' = Len(checks)
             /\ \A p \in Probes : upc'[p] = "done"
             /\ l' = "free"
             /\ cwg' = 0
       /\ dpc = "returned" =>
             /\ rErrors' = rErrors
             /\ rMeasurements' = rMeasurements]_vars

C11_Witness ==
    /\ dpc = "returned"
    /\ suppressed = {"db"}
    /\ ErrorEntries("dns") = 1
    /\ DurationEntries("http") = 1
    /\ Len(rMeasurements) = 2

\* --------------------------------------------------- properties: Run
\* C31: Run returns only with its ctx cancelled and with every cycle it started
\* finished; once it has left its loop on the cancellation it starts no cycle;
\* and after it has returned no cycle of it takes a step.
C31_RunReturnsAfterCancelAndCycles ==
    [][/\ (rpc' = "returned" /\ rpc # "returned") =>
             /\ ctxCancelled
             /\ rwg' = 0
             /\ \A c \in Cycles : cyc'[c] \in {"unstarted", "done"}
       /\ rpc \in {"wait", "returned"} =>
             /\ started' = started
             /\ \A c \in Cycles : cyc[c] = "unstarted" => cyc'[c] = "unstarted"
       /\ rpc = "returned" => cyc' = cyc]_vars

C31_Witness ==
    /\ runImpl = "pkg"
    /\ rpc = "returned"
    /\ started = 2
    /\ cancelledAtFinish[1] /\ ~handed[1]
    /\ handed[2] /\ ~cancelledAtFinish[2]

\* The cycles that are started and not over: in doChecks, at the test after it,
\* handing over, or inside a store write.
RunningCycles == {c \in Cycles : cyc[c] \notin {"unstarted", "done"}}

\* The loop of Run is at its head or in its select, where a tick starts a cycle.
LoopFree ==
    /\ rpc \in {"loop", "select"}
    /\ (rpc = "select" /\ tick /\ started < MaxCycles) => ENABLED RunSelectTick

\* C32: the tick loop of Run, in either checker, never waits for a cycle: while
\* ctx is live and a cycle is running its checks, handing its result over or
\* writing it to the store, the loop is at its head or in its select and the
\* next tick starts the next cycle.
C32_TickLoopNeverWaits ==
    (RunningCycles # {} /\ ~ctxCancelled) => LoopFree

\* The same of pkg/checker's Run alone.
PkgTickLoopNeverWaits ==
    (runImpl = "pkg" /\ RunningCycles # {} /\ ~ctxCancelled) => LoopFree

\* pkg/checker: the second cycle is started while the first is still in doChecks.
PkgCyclesOverlap ==
    /\ runImpl = "pkg"
    /\ cyc[1] = "doChecks" /\ cyc[2] = "doChecks"
    /\ ~ctxCancelled

\* C12: a cycle of Run whose doChecks returned with the ctx of Run already
\* cancelled is never handed to the storer: it neither reaches the hand-over
\* nor has its result passed on, in either checker.
C12_CancelledCycleNotHandedOver ==
    \A c \in Cycles :
        cancelledAtFinish[c] => (~handed[c] /\ cyc[c] \in {"test", "done"})

C12_Witness ==
    /\ runImpl = "pkg"
    /\ cyc[1] = "done" /\ handed[1] /\ timedOut[1]
    /\ cyc[2] = "done" /\ cancelledAtFinish[2] /\ ~handed[2]

\* ------------------------------------------ properties: gap analyzer
\* The ts values of the rows of one app, in stream order.
StampsOf(a) ==
    LET own == SelectSeq(rows, LAMBDA r : r.app = a)
    IN  [i \in DOMAIN own |-> own[i].ts]

\* The consecutive differences of one app: Gaps(a)[i] ends at StampsOf(a)[i + 1].
Gaps(a) ==
    LET st == StampsOf(a)
    IN  [i \in 1..(Len(st) - 1) |-> st[i + 1] - st[i]]

HasGap(a) == \E i \in DOMAIN Gaps(a) : Gaps(a)[i] > 0

MaxGap(a) == CHOOSE g \in {Gaps(a)[i] : i \in DOMAIN Gaps(a)} :
                 \A i \in DOMAIN Gaps(a) : Gaps(a)[i] <= g

\* The end timestamps of the pairs of one app that are MaxGap(a) apart.
MaxGapEnds(a) == {StampsOf(a)[i + 1] : i \in {j \in DOMAIN Gaps(a) : Gaps(a)[j] = MaxGap(a)}}

EmittedFor(a) == {i \in DOMAIN emitted : emitted[i].app = a}

\* The apps of the stream read so far.
AppsRead == {rows[i].app : i \in DOMAIN rows}

CompleteScan == gpc = "returned" /\ gerr = "nil"

\* What C13 says of the apps in the given set.
LongestGapEmitted(apps) ==
    CompleteScan =>
        /\ \A a \in apps : HasGap(a) =>
              /\ Cardinality(EmittedFor(a)) = 1
              /\ \A i \in EmittedFor(a) :
                    /\ emitted[i].interval = MaxGap(a)
                    /\ emitted[i].ts \in MaxGapEnds(a)
        /\ \A a \in apps : ~HasGap(a) => EmittedFor(a) = {}

\* C13: after a complete scan of an ordered stream, every app with a strictly
\* positive consecutive difference has exactly one record (app, g, e), g the
\* largest of its consecutive differences and e the later timestamp of a pair
\* that far apart, and no other app has a record.
C13_LongestGapEmittedPerApp == LongestGapEmitted(AppsRead)

\* The same of the apps whose app_id is not the empty string.
LongestGapEmittedPerNamedApp == LongestGapEmitted(AppsRead \ {""})

\* The example of the claim: (A,t0), (A,t0+1), (A,t0+3), (B,t0+1) gives (A, 2, t0+3).
LongestGapExample ==
    /\ CompleteScan
    /\ rows = <<[app |-> "A", ts |-> WindowStart], [app |-> "A", ts |-> WindowStart + 1],
                [app |-> "A", ts |-> WindowStart + 3], [app |-> "B", ts |-> WindowStart + 1]>>
    /\ emitted = <<[app |-> "A", interval |-> 2, ts |-> WindowStart + 3]>>

\* Every emitted record ends at a row that is not the first of its app and
\* carries the difference between that row and the row right before it.
EmittedBetweenConsecutiveRows(rs, em) ==
    \A k \in DOMAIN em :
        \E i \in 2..Len(rs) :
            /\ rs[i].app = em[k].app /\ rs[i - 1].app = em[k].app
            /\ rs[i].ts = em[k].ts
            /\ em[k].interval = rs[i].ts - rs[i - 1].ts

\* C29: the first row of each app resets the tracking state (previous timestamp
\* = its own, best gap = -1) and contributes no gap; any other row is compared
\* with the row right before it, which is of the same app; so every emitted
\* (app, gap, end) has end at a non-first row of that app and gap = end minus
\* the row right before it.
C29_GapsOnlyWithinOneApp ==
    [][rows' # rows =>
         LET row == rows'[Len(rows')]
             first == \A i \in DOMAIN rows : rows[i].app # row.app
         IN /\ first => (maxInterval' = -1 /\ lastTS' = row.ts /\ maxIntervalTS' = row.ts)
            /\ ~first =>
                  /\ rows[Len(rows)].app = row.app /\ lastTS = rows[Len(rows)].ts
                  /\ maxInterval' \in {maxInterval, row.ts - rows[Len(rows)].ts}
            /\ EmittedBetweenConsecutiveRows(rows', emitted')]_vars

\* What holds for every app_id: the emitted records lie between consecutive
\* rows of their app.
EmittedGapsWithinOneApp ==
    [][EmittedBetweenConsecutiveRows(rows', emitted')]_vars

\* And the tracking state is reset by the first row of every app whose app_id
\* is not the empty string.
NamedAppsResetTracking ==
    [][rows' # rows =>
         LET row == rows'[Len(rows')]
             first == \A i \in DOMAIN rows : rows[i].app # row.app
         IN row.app # "" =>
              /\ first => (maxInterval' = -1 /\ lastTS' = row.ts /\ maxIntervalTS' = row.ts)
              /\ ~first =>
                    /\ rows[Len(rows)].app = row.app /\ lastTS = rows[Len(rows)].ts
                    /\ maxInterval' \in {maxInterval, row.ts - rows[Len(rows)].ts}]_vars

Least(S) == CHOOSE x \in S : \A y \in S : x <= y

\* C37: when reading a row fails, whether rows.Scan returns the error or
\* rows.Next ends the loop with rows.Err() set, the function returns the error
\* without emitting the record pending for the app being read, and the records
\* emitted before stay as they are.
C37_RowErrorEmitsNothingPending ==
    [][/\ IsPrefix(emitted, emitted')
       /\ (gpc' = "returned" /\ gpc # "returned" /\ gerr' \in {"scan", "rows"}) =>
             emitted' = emitted]_vars

\* What holds: an error of rows.Scan (or of the query) returns at once with
\* nothing emitted in that step, and no record is ever taken back.
ScanErrorEmitsNothingPending ==
    [][/\ IsPrefix(emitted, emitted')
       /\ (gpc' = "returned" /\ gpc # "returned" /\ gerr' \in {"scan", "query"}) =>
             emitted' = emitted]_vars

\* Where the rows of an app begin in the stream.
FirstRow(a) == Least({i \in DOMAIN rows : rows[i].app = a})

\* C36: output is called at most once per app_id and in the order in which the
\* apps appear in the stream; the app whose rows are being read has no record
\* yet, its record comes when the next app begins or, for the last app, when
\* the rows have ended; and no record is ever emitted for the app_id "".
C36_OneRecordPerAppInStreamOrder ==
    /\ \A a \in AppsRead : Cardinality(EmittedFor(a)) <= 1
    /\ \A i \in DOMAIN emitted : emitted[i].app \in AppsRead \ {""}
    /\ \A i, j \in DOMAIN emitted :
          i < j => FirstRow(emitted[i].app) < FirstRow(emitted[j].app)
    /\ (gpc = "scan" /\ rows # <<>>) => EmittedFor(rows[Len(rows)].app) = {}
    /\ (CompleteScan /\ rows # <<>>) =>
          LET last == rows[Len(rows)].app
          IN (last # "" /\ HasGap(last)) =>
                 (emitted # <<>> /\ emitted[Len(emitted)].app = last)

C36_Witness ==
    /\ CompleteScan
    /\ rows = <<[app |-> "", ts |-> WindowStart], [app |-> "", ts |-> WindowStart + 1],
                [app |-> "A", ts |-> WindowStart], [app |-> "A", ts |-> WindowStart + 2]>>
    /\ emitted = <<[app |-> "A", interval |-> 2, ts |-> WindowStart + 2]>>

\* Two apps, each with its record, in the order of the stream.
TwoAppsInStreamOrder ==
    /\ CompleteScan
    /\ Len(emitted) = 2
    /\ emitted[1].app = "A" /\ emitted[2].app = "B"

\* C14: every record reports the end of the earliest pair of its app that is
\* the longest gap apart: among equal longest gaps the first one read stays.
C14_EarliestOfEqualGaps ==
    \A i \in DOMAIN emitted :
        /\ HasGap(emitted[i].app)
        /\ emitted[i].ts = Least(MaxGapEnds(emitted[i].app))

C14_Witness ==
    /\ CompleteScan
    /\ StampsOf("A") = <<WindowStart, WindowStart + 1, WindowStart + 2, WindowStart + 3>>
    /\ emitted = <<[app |-> "A", interval |-> 1, ts |-> WindowStart + 1]>>

\* C15: no record is ever emitted for an app with a single row or with rows of
\* one and the same timestamp, and the interval of every record is strictly
\* positive.
C15_OnlyPositiveGapsEmitted ==
    /\ \A i \in DOMAIN emitted :
          /\ emitted[i].interval > 0
          /\ Len(StampsOf(emitted[i].app)) >= 2
    /\ \A a \in AppsRead :
          (\A j, k \in DOMAIN StampsOf(a) : StampsOf(a)[j] = StampsOf(a)[k])
              => EmittedFor(a) = {}

C15_Witness ==
    /\ CompleteScan
    /\ StampsOf("A") = <<WindowStart + 1, WindowStart + 1, WindowStart + 1>>
    /\ StampsOf("B") = <<WindowStart>>
    /\ emitted = <<>>

\* ------------------------------------ properties: SaveCheckResults
\* C38: SaveCheckResults is all-or-nothing. A call that returns an error has
\* persisted no row of the result, a call returns nil only when every insert and
\* the commit succeeded and then the whole result is persisted, so after failed
\* attempts and a retry the store holds the result once and never a part of it.
C38_SaveIsAllOrNothing ==
    /\ \A i \in DOMAIN db : db[i] = TablesOf(txResult)
    /\ Len(db) = Cardinality({i \in DOMAIN returns : returns[i] = "nil"})
    /\ Len(db) <= 1
    /\ txpc = "returned" => tx = {}

C38_Witness ==
    /\ txpc = "returned"
    /\ txResult = [errors |-> TRUE, measurements |-> TRUE]
    /\ returns = <<"storing measurements", "nil">>
    /\ db = <<{"checks", "check_errors", "check_measurements"}>>

\* ---------------------------------------------------------- specifications
Next ==
    \/ \E s \in Subs : Submit(s)
    \/ \E s \in Subs : SubmitReturns(s)
    \/ \E s \in Subs : BeginIteration(s)
    \/ \E s \in Subs : TimerFires(s)
    \/ \E s \in Subs : SelectTimer(s)
    \/ \E s \in Subs : SelectCtxDone(s)
    \/ \E s \in Subs : SelectDone(s)
    \/ \E s \in Subs : StartAttempt(s)
    \/ \E s \in Subs : TaskSucceeds(s)
    \/ \E s \in Subs : TaskFails(s)
    \/ \E s \in Subs : ScheduleExhausted(s)
    \/ \E s \in Subs : GraceExpires(s)
    \/ CancelCtx
    \/ \E c \in Closers : MySQLClose(c)
    \/ \E c \in Closers : MySQLCloseReturns(c)
    \/ \E c \in Closers : LogClose(c)

\* Scheduling: a goroutine that can take its next step takes it, a pending timer
\* fires, an execution of the task returns, and wg.Wait() returns once the
\* counter stays at zero.
Fairness ==
    /\ \A s \in Subs :
          /\ WF_vars(BeginIteration(s))
          /\ WF_vars(TimerFires(s))
          /\ WF_vars(SelectTimer(s) \/ SelectCtxDone(s) \/ SelectDone(s))
          /\ WF_vars(StartAttempt(s))
          /\ WF_vars(TaskSucceeds(s) \/ TaskFails(s))
          /\ WF_vars(ScheduleExhausted(s))
    /\ \A c \in Closers : WF_vars(MySQLCloseReturns(c))

NextChecks ==
    \/ Launch
    \/ LaunchDone
    \/ \E p \in Probes : ProbeReturns(p)
    \/ \E p \in Probes : Lock(p)
    \/ \E p \in Probes : Enter(p)
    \/ \E p \in Probes : Record(p)
    \/ CancelCheckCtx
    \/ ChecksReturn

NextRun ==
    \/ Tick
    \/ RunLoopTest
    \/ RunSelectDone
    \/ RunSelectTick
    \/ \E c \in Cycles : CheckTimeout(c)
    \/ \E c \in Cycles : CycleChecksReturn(c)
    \/ \E c \in Cycles : CycleTest(c)
    \/ \E c \in Cycles : CycleSubmit(c)
    \/ \E c \in Cycles : CycleSaved(c)
    \/ RunReturns
    \/ CancelCtx

\* The daemon: main, its goroutines, checker.Run and the submissions.
NextDaemon ==
    \/ MainRegisters
    \/ MainStartsStopper
    \/ MainSubmitsPublicIP
    \/ MainStartsRunner
    \/ MainServes
    \/ ServerClosed
    \/ ServeFails
    \/ MainCloses
    \/ MainExits
    \/ StopperWakes
    \/ StopperSubmits
    \/ ShutdownWakes
    \/ ShutdownReturns
    \/ RunnerDone
    \/ CancelCtx
    \/ Tick
    \/ RunLoopTest
    \/ RunSelectDone
    \/ RunSelectTick
    \/ \E c \in Cycles : CycleChecksReturn(c)
    \/ \E c \in Cycles : CycleTest(c)
    \/ \E c \in Cycles : CycleSubmit(c)
    \/ RunReturns
    \/ \E u \in Updates : BeginUpdate(u)
    \/ DNSFails
    \/ DNSAnswers
    \/ IPWritten
    \/ \E u \in Updates : LockInstance(u)
    \/ \E u \in Updates : UpdateFails(u)
    \/ \E u \in Updates : UpdateSucceeds(u)
    \/ \E u \in Updates : UpdateReturns(u)
    \/ \E c \in Cycles : BeginSave(c)
    \/ \E c \in Cycles : SaveReturns(c)

NextGap ==
    \/ QueryFails
    \/ QueryRuns
    \/ ScanRow
    \/ ScanFails
    \/ RowsEnd

NextSave ==
    \/ \E r \in ResultShapes : SaveCalled(r)
    \/ SaveRetried
    \/ BeginTx
    \/ InsertCheck
    \/ LastInsertId
    \/ InsertErrors
    \/ InsertMeasurements
    \/ Deferred

NextNil ==
    \/ Next
    \/ \E s \in Subs : TaskPanics(s)

\* The retry loop of one submission under cancellation and shutdown.
Spec == InitIn(ScopeAlone) /\ [][Next]_vars

\* Concurrent submissions and concurrent Close calls.
SpecLive == InitIn(ScopeLive) /\ [][Next]_vars /\ Fairness

SpecPair == InitIn(ScopePair) /\ [][Next]_vars

SpecShared == InitIn(ScopeShared) /\ [][Next]_vars

\* Close called twice, in sequence or at once.
SpecClose == InitIn(ScopeClose) /\ [][Next]_vars

\* One doChecks call with its check goroutines.
SpecChecks == InitIn(ScopeChecks) /\ [][NextChecks]_vars

\* One Run call of either checker with its cycles.
SpecRun == InitIn(ScopeRun) /\ [][NextRun]_vars

\* func main with its goroutines and the submissions it makes.
SpecDaemon == InitIn(ScopeDaemon) /\ [][NextDaemon]_vars

\* SaveCheckResults on one result, called again after each error.
SpecSave == InitIn(ScopeSave) /\ [][NextSave]_vars

\* One AnalyzeLongestGapPerApp call over every ordered stream of rows.
SpecGap == InitIn(ScopeAlone) /\ [][NextGap]_vars

\* Submissions that may carry a nil task.
SpecNil == InitIn(ScopeNil) /\ [][NextNil]_vars
====
